---- MODULE Spec2Model ----
(***************************************************************************)
(* Provisioning orchestration layer of the LakeHouse accelerator:          *)
(*   databricks_api.py  _safe_request and the SCIM wrappers built on it,   *)
(*   dbx_auth.py        the cached bearer token provider,                  *)
(*   handlers.py        the per-action handlers,                           *)
(*   logger_utils.py    the audit trail.                                   *)
(*                                                                         *)
(* Python values are represented as follows.  A str is a sequence of       *)
(* one-character strings, so that strip, lower, split and join are         *)
(* computed.  A dict is a function with a string domain ({} is the         *)
(* function with the empty domain).  An Optional[dict] is a sequence of   *)
(* length 0 (None) or 1.  A formatted message is the record of its         *)
(* template name and its interpolated arguments.                           *)
(***************************************************************************)
EXTENDS Integers, Sequences, FiniteSets, TLC

VARIABLES
    token_cache,   \* dbx_auth._token_cache
    now,           \* the wall clock read by time.time(), in seconds
    req,           \* the last _safe_request call: its arguments and its result
    users,         \* remote identity directory: the user resources
    groups,        \* remote identity directory: the group resources
    next_id,       \* the next id the remote assigns
    audit,         \* the audit trail in the flat file, oldest record first
    last,          \* the last handler invocation: its row, result and requests
    calls,         \* the number of handler invocations so far
    faults,        \* the number of API calls that did not answer honestly so far
    audit_context, \* logger_utils._AUDIT_CONTEXT
    workspace,     \* remote workspace: its clusters and SQL warehouses
    store,         \* the audit backends: their configuration, their health and the
                   \* rows of the Delta table
    threads        \* the requests being served concurrently: their positions

vars == <<token_cache, now, req, users, groups, next_id, audit, last, calls, faults,
          audit_context, workspace, store, threads>>

(***************************************************************************)
(* Bounds                                                                  *)
(***************************************************************************)
MaxRetries == 3      \* largest `retries` argument explored
MaxCalls == 2        \* handler invocations per behaviour
MaxApiCalls == 7     \* API calls of one invocation whose behaviour is chosen
MaxFaults == 2       \* API calls of one behaviour that do not answer honestly

(***************************************************************************)
(* Python helpers                                                          *)
(***************************************************************************)
EmptyDict == [k \in {} |-> k]

Get(d, k, dflt) == IF k \in DOMAIN d THEN d[k] ELSE dflt

Range(s) == {s[i] : i \in DOMAIN s}

\* the value that stands for None where a str is expected (falsy, like "")
NoStr == <<>>

(***************************************************************************)
(* Python str operations on sequences of characters                        *)
(***************************************************************************)
UpperChars == <<"A","B","C","D","E","F","G","H","I","J","K","L","M",
                "N","O","P","Q","R","S","T","U","V","W","X","Y","Z">>
LowerChars == <<"a","b","c","d","e","f","g","h","i","j","k","l","m",
                "n","o","p","q","r","s","t","u","v","w","x","y","z">>

LowerChar(c) ==
    IF \E i \in DOMAIN UpperChars : UpperChars[i] = c
    THEN LowerChars[CHOOSE i \in DOMAIN UpperChars : UpperChars[i] = c]
    ELSE c

\* str.lower()
Lower(s) == [i \in 1..Len(s) |-> LowerChar(s[i])]

UpperChar(c) ==
    IF \E i \in DOMAIN LowerChars : LowerChars[i] = c
    THEN UpperChars[CHOOSE i \in DOMAIN LowerChars : LowerChars[i] = c]
    ELSE c

\* str.upper()
Upper(s) == [i \in 1..Len(s) |-> UpperChar(s[i])]

IsSpace(c) == c = " "

\* str.strip()
RECURSIVE LStrip(_)
LStrip(s) == IF s # <<>> /\ IsSpace(Head(s)) THEN LStrip(Tail(s)) ELSE s

RECURSIVE RStrip(_)
RStrip(s) ==
    IF s # <<>> /\ IsSpace(s[Len(s)]) THEN RStrip(SubSeq(s, 1, Len(s) - 1)) ELSE s

Strip(s) == RStrip(LStrip(s))

\* str.split(sep) for a one-character separator: the list of the pieces
RECURSIVE SplitFrom(_, _, _)
SplitFrom(s, sep, cur) ==
    IF s = <<>> THEN <<cur>>
    ELSE IF Head(s) = sep THEN <<cur>> \o SplitFrom(Tail(s), sep, <<>>)
    ELSE SplitFrom(Tail(s), sep, Append(cur, Head(s)))

Split(s, sep) == SplitFrom(s, sep, <<>>)

\* sep.join(parts)
RECURSIVE Join(_, _)
Join(parts, sep) ==
    IF parts = <<>> THEN <<>>
    ELSE IF Len(parts) = 1 THEN parts[1]
    ELSE parts[1] \o sep \o Join(Tail(parts), sep)

(***************************************************************************)
(* handlers.py: helpers                                                    *)
(***************************************************************************)
_MEMBER_SEPARATORS == <<",", ";">>

\* [p.strip().lower() for p in parts if p.strip()]
RECURSIVE StripLowerNonBlank(_)
StripLowerNonBlank(parts) ==
    IF parts = <<>> THEN <<>>
    ELSE (IF Strip(Head(parts)) # <<>> THEN <<Lower(Strip(Head(parts)))>> ELSE <<>>)
         \o StripLowerNonBlank(Tail(parts))

\* the separators of _MEMBER_SEPARATORS that occur in csv, in list order
SeparatorsIn(csv) == SelectSeq(_MEMBER_SEPARATORS, LAMBDA sep : sep \in Range(csv))

\* _split_members, lines 43-48, csv being the stripped argument
split_stripped(csv, seps) ==
    IF seps # <<>>
    THEN StripLowerNonBlank(Split(csv, seps[1]))
    ELSE IF csv # <<>> THEN <<Lower(csv)>> ELSE <<>>

\* _split_members(members_csv)
_split_members(members_csv) ==
    IF members_csv = <<>> THEN <<>>
    ELSE split_stripped(Strip(members_csv), SeparatorsIn(Strip(members_csv)))

\* row.get(key) or ""
Field(row, key) == Get(row, key, NoStr)

ProdNames == {<<"p","r","o","d">>, <<"p","r","o","d","u","c","t","i","o","n">>,
              <<"p","r","d">>, <<"p">>}
Others == <<"O","t","h","e","r","s">>

\* construct_group_name, lines 68-85: the name built from the stripped fields
group_name_of(env, bu, bu_value, domain, appName, role) ==
    IF bu = Others /\ bu_value = <<>>
    THEN [exc |-> "ValueError", msg |-> "other_type is required when bu is 'Others'",
          name |-> <<>>]
    ELSE [exc |-> "", msg |-> "",
          name |-> Join(<<env>>
                        \o (IF bu_value # <<>> THEN <<<<"T","M">> \o bu_value>> ELSE <<>>)
                        \o (IF domain # <<>> THEN <<domain>> ELSE <<>>)
                        \o (IF appName # <<>> THEN <<appName>> ELSE <<>>)
                        \o (IF role # <<>> THEN <<role>> ELSE <<>>),
                        <<"_">>)]

\* group_name_bu taking the business unit from bu even when bu is "Others"
group_name_bu_no_override(row, env, bu) ==
    group_name_of(env, <<>>, bu,
                  Strip(Field(row, "domain")), Strip(Field(row, "appName")),
                  Strip(Field(row, "role")))

\* construct_group_name, lines 62-73, bu being the stripped business unit
group_name_bu(row, env, bu) ==
    group_name_of(env, bu,
                  IF bu = Others THEN Strip(Field(row, "other_type")) ELSE bu,
                  Strip(Field(row, "domain")), Strip(Field(row, "appName")),
                  Strip(Field(row, "role")))

\* construct_group_name(row): the name, or the ValueError it raises
construct_group_name(row) ==
    group_name_bu(row,
                  IF Lower(Strip(Field(row, "env"))) \in ProdNames
                  THEN <<"p","r","o","d">> ELSE <<"n","p","r","o","d">>,
                  Strip(Field(row, "bu")))

(***************************************************************************)
(* dbx_auth.py                                                             *)
(***************************************************************************)
NoToken == "None"

TokenCacheInit == [token |-> NoToken, expires_at |-> 0]

\* Behaviours of the token endpoint for one fetch.
TokOk(tk, ttl) == [kind |-> "ok", access_token |-> tk, expires_in |-> ttl]
TokConnFail == [kind |-> "conn_fail"]     \* requests.post raises ConnectionError/Timeout
TokHttpErr == [kind |-> "http_err"]       \* raise_for_status raises HTTPError
TokNoToken == [kind |-> "no_token"]       \* JSON body without "access_token"

\* get_dbx_access_token(): the result is the token returned or the exception
\* raised, the cache afterwards, and whether the endpoint was contacted.
get_dbx_access_token(cache, clock, ep) ==
    IF cache.token # NoToken /\ clock < cache.expires_at
    THEN [raised |-> "", token |-> cache.token, cache |-> cache, posted |-> FALSE]
    ELSE CASE ep.kind = "conn_fail" ->
                [raised |-> "RequestException", token |-> NoToken, cache |-> cache, posted |-> TRUE]
           [] ep.kind = "http_err" ->
                [raised |-> "RequestException", token |-> NoToken, cache |-> cache, posted |-> TRUE]
           [] ep.kind = "no_token" ->
                [raised |-> "KeyError", token |-> NoToken, cache |-> cache, posted |-> TRUE]
           [] OTHER ->
                [raised |-> "", token |-> ep.access_token,
                 cache |-> [token |-> ep.access_token,
                            expires_at |-> clock + ep.expires_in - 60],
                 posted |-> TRUE]

\* the Authorization header built from the provider's answer t
BearerHeaders(t) ==
    [raised |-> t.raised, cache |-> t.cache,
     headers |-> IF t.raised = "" THEN <<"Bearer", t.token>> ELSE <<>>]

\* _auth_headers()
auth_headers(cache, clock, ep) == BearerHeaders(get_dbx_access_token(cache, clock, ep))

(***************************************************************************)
(* databricks_api.py: _safe_request                                        *)
(***************************************************************************)
FAST_RETRIES == 2

NoHeaders == <<>>       \* headers=None (or an empty mapping): falsy

\* Behaviours of the HTTP layer for one requests.request call.
HttpExc == [kind |-> "exc"]     \* a requests.exceptions.RequestException
\* a response; js is <<body>> when resp.json() parses and <<>> when it raises
HttpResp(code, js, text) == [kind |-> "resp", status_code |-> code, json |-> js, text |-> text]

\* f"{method} {url} failed: {resp.status_code}"
FailedMsg(method, url, code) ==
    [fmt |-> "{method} {url} failed: {status_code}",
     method |-> method, url |-> url, status_code |-> code]

\* f"{method} {url} network error after {retries} attempts: {e}"
NetworkMsg(method, url, retries) ==
    [fmt |-> "{method} {url} network error after {retries} attempts: {e}",
     method |-> method, url |-> url, retries |-> retries]

\* OnResponse with the error branch reporting a transport-style failure
\* instead of the remote status and body
OnResponse_drop_remote(method, url, resp) ==
    IF resp.status_code \in {200, 201}
    THEN IF resp.json # <<>>
         THEN [status_code |-> resp.status_code, body |-> resp.json[1]]
         ELSE [status_code |-> resp.status_code, body |-> EmptyDict, message |-> "Empty body"]
    ELSE IF resp.status_code = 204
    THEN [status_code |-> 204, body |-> EmptyDict, message |-> "No content"]
    ELSE [status_code |-> 0, body |-> EmptyDict,
          error |-> FailedMsg(method, url, resp.status_code)]

\* The branch of _safe_request taken on a response (lines 86-109).
OnResponse(method, url, resp) ==
    IF resp.status_code \in {200, 201}
    THEN IF resp.json # <<>>
         THEN [status_code |-> resp.status_code, body |-> resp.json[1]]
         ELSE [status_code |-> resp.status_code, body |-> EmptyDict, message |-> "Empty body"]
    ELSE IF resp.status_code = 204
    THEN [status_code |-> 204, body |-> EmptyDict, message |-> "No content"]
    ELSE [status_code |-> resp.status_code,
          body |-> IF resp.json # <<>> THEN resp.json[1] ELSE [error |-> resp.text],
          error |-> FailedMsg(method, url, resp.status_code)]

\* headers or _auth_headers(): the headers of one iteration
HeadersFor(headers, cache, clock, ep) ==
    IF headers # NoHeaders
    THEN [raised |-> "", cache |-> cache, headers |-> headers]
    ELSE auth_headers(cache, clock, ep)

RequestEvent(method, url, attempt) ==
    [ev |-> "request", attempt |-> attempt, method |-> method, url |-> url]

\* The retry loop of _safe_request from iteration `attempt` on.  att[i] is
\* what the token endpoint and the HTTP layer do on iteration i.  The result
\* tells whether the call returned an Outcome, returned None (the loop body
\* never ran) or raised, and carries the trace of requests and sleeps.
RECURSIVE safe_request_loop(_, _, _, _, _, _, _, _, _, _)

\* One iteration whose sleep does not double the delay
safe_request_iteration_fixed_delay(method, url, retries, headers, att, attempt, delay, clock, events, h) ==
    IF h.raised \notin {"", "RequestException"}
    THEN [ret |-> h.raised, out |-> EmptyDict, events |-> events,
          cache |-> h.cache, clock |-> clock, iterations |-> attempt]
    ELSE IF h.raised = "" /\ att[attempt].http.kind = "resp"
    THEN [ret |-> "Outcome", out |-> OnResponse(method, url, att[attempt].http),
          events |-> Append(events, RequestEvent(method, url, attempt)),
          cache |-> h.cache, clock |-> clock, iterations |-> attempt]
    ELSE IF attempt = retries
    THEN [ret |-> "Outcome",
          out |-> [status_code |-> 0, body |-> EmptyDict,
                   error |-> NetworkMsg(method, url, retries)],
          events |-> IF h.raised = ""
                     THEN Append(events, RequestEvent(method, url, attempt))
                     ELSE events,
          cache |-> h.cache, clock |-> clock, iterations |-> attempt]
    ELSE safe_request_loop(method, url, retries, headers, att, attempt + 1,
                           delay, h.cache, clock + delay,
                           Append(IF h.raised = ""
                                  THEN Append(events, RequestEvent(method, url, attempt))
                                  ELSE events,
                                  [ev |-> "sleep", secs |-> delay]))

\* One iteration (lines 78-120), h being the headers obtained for it; the
\* result counts the iterations entered.
safe_request_iteration(method, url, retries, headers, att, attempt, delay, clock, events, h) ==
    IF h.raised \notin {"", "RequestException"}
    THEN [ret |-> h.raised, out |-> EmptyDict, events |-> events,
          cache |-> h.cache, clock |-> clock, iterations |-> attempt]
    ELSE IF h.raised = "" /\ att[attempt].http.kind = "resp"
    THEN [ret |-> "Outcome", out |-> OnResponse(method, url, att[attempt].http),
          events |-> Append(events, RequestEvent(method, url, attempt)),
          cache |-> h.cache, clock |-> clock, iterations |-> attempt]
    ELSE IF attempt = retries
    THEN [ret |-> "Outcome",
          out |-> [status_code |-> 0, body |-> EmptyDict,
                   error |-> NetworkMsg(method, url, retries)],
          events |-> IF h.raised = ""
                     THEN Append(events, RequestEvent(method, url, attempt))
                     ELSE events,
          cache |-> h.cache, clock |-> clock, iterations |-> attempt]
    ELSE safe_request_loop(method, url, retries, headers, att, attempt + 1,
                           delay * 2, h.cache, clock + delay,
                           Append(IF h.raised = ""
                                  THEN Append(events, RequestEvent(method, url, attempt))
                                  ELSE events,
                                  [ev |-> "sleep", secs |-> delay]))

safe_request_loop(method, url, retries, headers, att, attempt, delay, cache, clock, events) ==
    IF attempt > retries
    THEN [ret |-> "None", out |-> EmptyDict, events |-> events,
          cache |-> cache, clock |-> clock, iterations |-> attempt - 1]
    ELSE safe_request_iteration(method, url, retries, headers, att, attempt, delay, clock,
                                events, HeadersFor(headers, cache, clock, att[attempt].tok))

\* _safe_request looping over range(1, retries): one attempt too few
_safe_request_one_short(method, url, retries, headers, att, cache, clock) ==
    safe_request_loop(method, url, retries - 1, headers, att, 1, 2, cache, clock, <<>>)

_safe_request(method, url, retries, headers, att, cache, clock) ==
    safe_request_loop(method, url, retries, headers, att, 1, 2, cache, clock, <<>>)

(***************************************************************************)
(* The remote identity directory and the SCIM wrappers of databricks_api   *)
(*                                                                         *)
(* The handlers are computed over a world w: the remote directory, the     *)
(* token cache and clock, the audit trail, the log of the API calls made   *)
(* so far, and the behaviour bs[k] of the remote on the k-th API call.     *)
(***************************************************************************)
IdTable == <<"id1", "id2", "id3", "id4", "id5", "id6", "id7", "id8", "id9">>
IdOf(n) == <<IdTable[n]>>
NumOf(id) == CHOOSE n \in DOMAIN IdTable : IdTable[n] = id[1]

\* the first resource of S in the order the remote assigned the ids
FirstOf(S) == CHOOSE x \in S : \A y \in S : NumOf(x.id) <= NumOf(y.id)

\* the resources of S as a list, in the order the remote assigned their ids
RECURSIVE SeqOf(_)
SeqOf(S) == IF S = {} THEN <<>> ELSE <<FirstOf(S)>> \o SeqOf(S \ {FirstOf(S)})

\* what the remote does on one API call: it answers as the directory says,
\* it answers with a server error, or every attempt fails in transport
CallBehs == {"honest", "http_err", "net"}

UrlOf(coll, id) == [coll |-> coll, id |-> id]

Attempts(b, honest) ==
    [i \in 1..FAST_RETRIES |->
        [tok |-> TokOk("t2", 3600),
         http |-> CASE b = "honest" -> honest
                    [] b = "http_err" -> HttpResp(500, <<[message |-> "server error"]>>, "raw")
                    [] OTHER -> HttpExc]]

\* the behaviour of the remote on the next API call
BehOf(w) == IF w.k \in DOMAIN w.bs THEN w.bs[w.k] ELSE "honest"

NumRequests(events) == Len(SelectSeq(events, LAMBDA e : e.ev = "request"))

\* the result of a wrapper whose _safe_request call returned r: the Outcome,
\* whether the remote processed the request, and the world with the call
\* logged with its argument and outcome
Called(w, method, url, arg, r) ==
    [out |-> r.out,
     reached |-> BehOf(w) = "honest",
     w |-> [w EXCEPT !.reqs = Append(@, [method |-> method, url |-> url, arg |-> arg,
                                         status |-> r.out.status_code,
                                         body |-> r.out.body,
                                         attempts |-> NumRequests(r.events),
                                         audits |-> Len(w.audit),
                                         ctx_row |-> w.ctx.row_id]),
                     !.cache = r.cache,
                     !.clock = r.clock,
                     !.k = @ + 1]]

\* One call of a wrapper: _safe_request(method, url, retries=FAST_RETRIES)
\* with the provider's headers.
api_call(w, method, url, arg, honest) ==
    Called(w, method, url, arg,
           _safe_request(method, url, FAST_RETRIES, NoHeaders,
                         Attempts(BehOf(w), honest), w.cache, w.clock))

UserMatches(u, filt) ==
    IF filt.attr = "userName" THEN u.userName = filt.value ELSE filt.value \in u.emails

\* scim_list_users(filter_), filter_ = f'{attr} eq "{value}"'
scim_list_users(w, filt) ==
    api_call(w, "GET", UrlOf("Users", NoStr), filt,
             HttpResp(200, <<[Resources |-> SeqOf({u \in w.users : UserMatches(u, filt)})]>>,
                      "json"))

\* the user the remote creates for a payload
NewUser(w, payload) ==
    [id |-> IdOf(w.next_id), userName |-> payload.userName,
     emails |-> {payload.emails[i].value : i \in DOMAIN payload.emails}]

\* the directory after the create call c, when the remote processed it
UserAdded(c, new) ==
    IF c.reached THEN [c EXCEPT !.w.users = @ \cup {new}, !.w.next_id = @ + 1] ELSE c

\* scim_create_user(payload)
scim_create_user(w, payload) ==
    UserAdded(api_call(w, "POST", UrlOf("Users", NoStr), payload,
                       HttpResp(201, <<[id |-> IdOf(w.next_id),
                                        userName |-> payload.userName]>>, "json")),
              NewUser(w, payload))

\* scim_patch_user(user_id, patch_ops); the attributes a patch replaces are
\* not part of the directory's state
scim_patch_user(w, user_id, patch_ops) ==
    api_call(w, "PATCH", UrlOf("Users", user_id), patch_ops,
             IF \E u \in w.users : u.id = user_id
             THEN HttpResp(200, <<[id |-> user_id]>>, "json")
             ELSE HttpResp(404, <<[detail |-> "User not found"]>>, "json"))

\* the directory after the delete call c, when the remote processed it
UserDeleted(c, user_id) ==
    IF c.reached
    THEN [c EXCEPT !.w.users = {u \in @ : u.id # user_id},
                   !.w.groups = {[g EXCEPT !.members = @ \ {user_id}] : g \in @}]
    ELSE c

\* scim_delete_user(user_id)
scim_delete_user(w, user_id) ==
    UserDeleted(api_call(w, "DELETE", UrlOf("Users", user_id), EmptyDict,
                         IF \E u \in w.users : u.id = user_id
                         THEN HttpResp(204, <<>>, "")
                         ELSE HttpResp(404, <<[detail |-> "User not found"]>>, "json")),
                user_id)

\* scim_list_groups(filter_), filter_ = f'displayName eq "{value}"'
scim_list_groups(w, filt) ==
    api_call(w, "GET", UrlOf("Groups", NoStr), filt,
             HttpResp(200, <<[Resources |-> SeqOf({g \in w.groups : g.displayName = filt.value})]>>,
                      "json"))

\* the directory after the create call c, when the remote processed it
GroupAdded(c, new) ==
    IF c.reached THEN [c EXCEPT !.w.groups = @ \cup {new}, !.w.next_id = @ + 1] ELSE c

\* scim_create_group(payload)
scim_create_group(w, payload) ==
    GroupAdded(api_call(w, "POST", UrlOf("Groups", NoStr), payload,
                        HttpResp(201, <<[id |-> IdOf(w.next_id),
                                         displayName |-> payload.displayName]>>, "json")),
               [id |-> IdOf(w.next_id), displayName |-> payload.displayName, members |-> {}])

\* the members of a group after the operations of a PatchOp payload
RECURSIVE ApplyOps(_, _)
ApplyOps(members, ops) ==
    IF ops = <<>> THEN members
    ELSE ApplyOps(IF Head(ops).op = "add"
                  THEN members \cup {Head(ops).value[i].value : i \in DOMAIN Head(ops).value}
                  ELSE members \ {Head(ops).path.value},
                  Tail(ops))

\* the directory after the patch call c, when the remote processed it
GroupPatched(c, group_id, patch_ops) ==
    IF c.reached
    THEN [c EXCEPT !.w.groups =
             {IF g.id = group_id
              THEN [g EXCEPT !.members = ApplyOps(@, patch_ops.Operations)]
              ELSE g : g \in @}]
    ELSE c

\* scim_patch_group addressing the Users collection (the URL of scim_patch_user)
scim_patch_group_users_url(w, group_id, patch_ops) ==
    api_call(w, "PATCH", UrlOf("Users", group_id), patch_ops,
             HttpResp(404, <<[detail |-> "User not found"]>>, "json"))

\* scim_patch_group(group_id, patch_ops)
scim_patch_group(w, group_id, patch_ops) ==
    GroupPatched(api_call(w, "PATCH", UrlOf("Groups", group_id), patch_ops,
                          IF \E g \in w.groups : g.id = group_id
                          THEN HttpResp(204, <<>>, "")
                          ELSE HttpResp(404, <<[detail |-> "Group not found"]>>, "json")),
                 group_id, patch_ops)

(***************************************************************************)
(* logger_utils.py: the audit trail                                        *)
(***************************************************************************)
\* a formatted text: its template and its interpolated values
Text(fmt, args) == [fmt |-> fmt, args |-> args]

NoCode == <<>>      \* response_code=None
NoBody == <<>>      \* response_body=None
NoPayload == <<>>   \* request_payload=None

\* The keys of _AUDIT_CONTEXT.  A context value is <<>> for None and <<v>>
\* for the value v, and so is an optional argument of append_audit.
AuditContextKeys ==
    {"run_id", "admin", "file_path", "row_id", "request_payload", "response_code",
     "response_body"}

\* _AUDIT_CONTEXT as the module defines it: every key None
NoContext == [k \in AuditContextKeys |-> <<>>]

\* set_audit_context(**kwargs) storing every keyword it is given
set_audit_context_any_key(ctx, kwargs) ==
    [k \in DOMAIN ctx \cup DOMAIN kwargs |-> IF k \in DOMAIN kwargs THEN kwargs[k] ELSE ctx[k]]

\* set_audit_context(**kwargs): keys that are not context keys are ignored
set_audit_context(ctx, kwargs) ==
    [k \in DOMAIN ctx |-> IF k \in DOMAIN kwargs THEN kwargs[k] ELSE ctx[k]]

\* clear_audit_context()
clear_audit_context(ctx) == [k \in DOMAIN ctx |-> <<>>]

DecimalDigits == <<"0", "1", "2", "3", "4", "5", "6", "7", "8", "9">>

\* str(n) for a natural number n
RECURSIVE StrOfNat(_)
StrOfNat(n) ==
    IF n < 10 THEN <<DecimalDigits[n + 1]>>
    ELSE StrOfNat(n \div 10) \o <<DecimalDigits[(n % 10) + 1]>>

IsDigit(c) == c \in Range(DecimalDigits)

DigitValue(c) == (CHOOSE i \in DOMAIN DecimalDigits : DecimalDigits[i] = c) - 1

\* the number a sequence of decimal digits denotes
RECURSIVE NatOf(_)
NatOf(s) ==
    IF s = <<>> THEN 0
    ELSE NatOf(SubSeq(s, 1, Len(s) - 1)) * 10 + DigitValue(s[Len(s)])

\* json.dumps(v): the serialised form of v
Dumps(v) == [json |-> v]

\* the merge in which a context value that is set wins over the argument
ArgOrContext_context_first(arg, c) == IF c # <<>> THEN c ELSE arg

\* arg if arg is not None else ctx.get(key)
ArgOrContext(arg, c) == IF arg # <<>> THEN arg ELSE c

\* ctx.get(key) or ""
ContextOrEmpty(c) == IF c = <<>> THEN NoStr ELSE c[1]

\* str(v) if v is not None else ""
StrOrEmpty(v) == IF v # <<>> THEN StrOfNat(v[1]) ELSE NoStr

\* json.dumps(v) if v is not None else ""
DumpsOrEmpty(v) == IF v # <<>> THEN <<Dumps(v[1])>> ELSE NoStr

\* append_audit, lines 205-225: the record built under the context ctx
audit_row(ctx, ts, action, principal, identifier, status, details, response_code, response_body, request_payload) ==
    [run_id |-> ContextOrEmpty(ctx.run_id),
     ts |-> ts,
     admin |-> ContextOrEmpty(ctx.admin),
     file_path |-> ContextOrEmpty(ctx.file_path),
     row_id |-> StrOrEmpty(ctx.row_id),
     action |-> action,
     principal_type |-> principal,
     principal_identifier |-> identifier,
     status |-> status,
     details |-> details,
     request_payload |-> DumpsOrEmpty(ArgOrContext(request_payload, ctx.request_payload)),
     response_code |-> StrOrEmpty(ArgOrContext(response_code, ctx.response_code)),
     response_body |-> DumpsOrEmpty(ArgOrContext(response_body, ctx.response_body))]


\* no request is being served concurrently
NoThreads == <<>>

\* the audit backends when AUDIT_MODE is "file": only the flat file is
\* written, and it accepts writes
FileStore ==
    [mode |-> "file", env |-> FALSE, connect |-> FALSE, create |-> FALSE, grant |-> FALSE,
     insert |-> FALSE, select |-> FALSE, file_write |-> TRUE, file_read |-> TRUE,
     delta |-> <<>>]

\* get_sql_connection(): sql.connect returns a connection, or raises; the
\* except clause that then runs names AuthenticationError, which the module
\* never imports, so that evaluating the clause raises NameError
get_sql_connection(s) == IF s.connect THEN "ok" ELSE "NameError"

\* execute(sql_text, params) for a statement the warehouse accepts (accepted)
\* or rejects
execute(s, accepted) ==
    IF get_sql_connection(s) # "ok" THEN get_sql_connection(s)
    ELSE IF accepted THEN "ok" ELSE "DatabaseError"

\* ensure_audit_table_sql(): CREATE TABLE IF NOT EXISTS, then GRANT; when one
\* of them raises, the except clause (line 168) names AuthenticationError
\* too and raises NameError in its turn
ensure_audit_table_sql(s) ==
    IF execute(s, s.create) # "ok" THEN "NameError"
    ELSE IF execute(s, s.grant) # "ok" THEN "NameError"
    ELSE "ok"

\* insert_audit_sql(row)
insert_audit_sql(s) == execute(s, s.insert)

\* _append_to_file(row): the row is appended to the CSV file, or the error is
\* printed and swallowed
_append_to_file(w, row) ==
    IF w.store.file_write THEN [w EXCEPT !.audit = Append(@, row)] ELSE w

\* append_audit, lines 227-235, that falls back only when the table cannot
\* be ensured
append_audit_row_no_insert_fallback(w, row) ==
    IF w.store.mode = "delta" /\ w.store.env
    THEN IF ensure_audit_table_sql(w.store) # "ok" THEN _append_to_file(w, row)
         ELSE IF insert_audit_sql(w.store) # "ok" THEN w
         ELSE [w EXCEPT !.store.delta = Append(@, row)]
    ELSE _append_to_file(w, row)

\* append_audit, lines 227-235: the row goes to the Delta table, and to the
\* file when AUDIT_MODE is not "delta", the environment is not a Databricks
\* one, or ensuring the table or inserting raised
append_audit_row(w, row) ==
    IF w.store.mode = "delta" /\ w.store.env
    THEN IF ensure_audit_table_sql(w.store) # "ok" THEN _append_to_file(w, row)
         ELSE IF insert_audit_sql(w.store) # "ok" THEN _append_to_file(w, row)
         ELSE [w EXCEPT !.store.delta = Append(@, row)]
    ELSE _append_to_file(w, row)

\* append_audit(action, principal, identifier, status, details, response_code,
\*              response_body, request_payload)
append_audit(w, action, principal, identifier, status, details, response_code, response_body, request_payload) ==
    append_audit_row(w, audit_row(w.ctx, w.clock, action, principal, identifier, status,
                                  details, response_code, response_body, request_payload))

\* EXPECTED_COLUMNS
EXPECTED_COLUMNS ==
    <<"run_id", "ts", "admin", "file_path", "row_id", "action", "principal_type",
      "principal_identifier", "status", "details", "request_payload", "response_code",
      "response_body">>

\* pd.DataFrame(rows, columns=columns)
DataFrame(columns, rows) == [columns |-> columns, rows |-> rows]

\* the cell pd.read_csv yields for a cell of a column of numbers: an empty
\* cell is NaN and a decimal literal is its number
CsvNumber(cell) == IF cell = <<>> THEN [nan |-> TRUE] ELSE [nan |-> FALSE, n |-> NatOf(cell)]

\* the cell pd.read_csv yields for a cell of a column of text: an empty
\* cell is NaN
CsvText(cell) == IF cell = <<>> THEN [nan |-> TRUE] ELSE cell

\* pd.read_csv(AUDIT_FILE_PATH) on one line of the file: to_csv wrote every
\* value as text, and read_csv infers the type of each column; row_id and
\* response_code hold decimal literals or nothing, the context and principal
\* columns hold text or nothing
ReadCsvRow(row) ==
    [row EXCEPT !.row_id = CsvNumber(@), !.response_code = CsvNumber(@),
                !.run_id = CsvText(@), !.admin = CsvText(@), !.file_path = CsvText(@),
                !.principal_identifier = CsvText(@), !.request_payload = CsvText(@),
                !.response_body = CsvText(@)]

\* pd.read_csv(AUDIT_FILE_PATH)
ReadCsv(file) == [i \in DOMAIN file |-> ReadCsvRow(file[i])]

\* the rows a filter keeps: df[df[k] == v] for every key that is a column
Filtered(rows, filters) ==
    SelectSeq(rows, LAMBDA r : \A k \in DOMAIN filters : k \in DOMAIN r => r[k] = filters[k])

\* the position a row takes in a sequence ordered by ts, newest first, behind
\* the rows that are as new
RECURSIVE InsertByTs(_, _)
InsertByTs(sorted, r) ==
    IF sorted = <<>> THEN <<r>>
    ELSE IF Head(sorted).ts >= r.ts THEN <<Head(sorted)>> \o InsertByTs(Tail(sorted), r)
    ELSE <<r>> \o sorted

\* df.sort_values("ts", ascending=False), and ORDER BY ts DESC
RECURSIVE NewestFirst(_)
NewestFirst(rows) ==
    IF rows = <<>> THEN <<>>
    ELSE InsertByTs(NewestFirst(SubSeq(rows, 1, Len(rows) - 1)), rows[Len(rows)])

\* df.head(limit), and LIMIT, for a limit that is not negative
FirstRows(rows, limit) == SubSeq(rows, 1, IF limit < Len(rows) THEN limit ELSE Len(rows))

\* read_audit without the ordering by ts
read_file_unsorted(s, file, limit, filters) ==
    IF ~s.file_read \/ file = <<>> THEN DataFrame(EXPECTED_COLUMNS, <<>>)
    ELSE DataFrame(EXPECTED_COLUMNS,
                   FirstRows(Filtered(ReadCsv(file), IF filters = <<>> THEN EmptyDict
                                                     ELSE filters[1]),
                             limit))

\* read_audit, lines 260-273: the file is read, filtered, ordered and cut;
\* a file that is missing or cannot be read gives the empty frame
read_file(s, file, limit, filters) ==
    IF ~s.file_read \/ file = <<>> THEN DataFrame(EXPECTED_COLUMNS, <<>>)
    ELSE DataFrame(EXPECTED_COLUMNS,
                   FirstRows(NewestFirst(Filtered(ReadCsv(file),
                                                  IF filters = <<>> THEN EmptyDict
                                                  ELSE filters[1])),
                             limit))

\* read_audit, lines 239-257: the SELECT succeeds when the connection is made,
\* the warehouse answers and every filter key is a column of the table
SelectSucceeds(s, filters) ==
    /\ get_sql_connection(s) = "ok"
    /\ s.select
    /\ filters # <<>> => \A k \in DOMAIN filters[1] : k \in Range(EXPECTED_COLUMNS)

\* read_audit(limit, filters); filters is <<>> for None
read_audit(s, file, limit, filters) ==
    IF s.mode = "delta" /\ s.env /\ SelectSucceeds(s, filters)
    THEN DataFrame(EXPECTED_COLUMNS,
                   FirstRows(NewestFirst(Filtered(s.delta, IF filters = <<>> THEN EmptyDict
                                                           ELSE filters[1])),
                             limit))
    ELSE read_file(s, file, limit, filters)

(***************************************************************************)
(* handlers.py: lookups                                                    *)
(***************************************************************************)
\* the resources of a list call that returned `code`:
\* body.get("Resources") or [], and [] for any other status
ResourcesOf(r, code) ==
    IF r.out.status_code = code THEN Get(r.out.body, "Resources", <<>>) ELSE <<>>

\* resources[0] if resources else None
FirstOrNone(w, res) == [w |-> w, found |-> IF res # <<>> THEN <<res[1]>> ELSE <<>>]

\* _find_user_by_email, lines 103-110: the lookup by emails.value returned r2
find_user_by_emails_value(r2, code) == FirstOrNone(r2.w, ResourcesOf(r2, code))

\* _find_user_by_email, lines 97-105: the lookup by userName returned r1
find_user_by_userName(r1, email, code) ==
    IF ResourcesOf(r1, code) # <<>>
    THEN FirstOrNone(r1.w, ResourcesOf(r1, code))
    ELSE find_user_by_emails_value(
             scim_list_users(r1.w, [attr |-> "emails.value", value |-> email]), code)

\* _find_user_by_email accepting only status 201 from the list calls
_find_user_by_email_201(w, email) ==
    IF email = <<>> THEN [w |-> w, found |-> <<>>]
    ELSE find_user_by_userName(scim_list_users(w, [attr |-> "userName", value |-> email]),
                               email, 201)

\* _find_user_by_email(email): <<resource>> or <<>> (None)
_find_user_by_email(w, email) ==
    IF email = <<>> THEN [w |-> w, found |-> <<>>]
    ELSE find_user_by_userName(scim_list_users(w, [attr |-> "userName", value |-> email]),
                               email, 200)

\* u.get("id") if u else None
IdOrNone(u) ==
    [w |-> u.w, id |-> IF u.found # <<>> THEN Get(u.found[1], "id", NoStr) ELSE NoStr]

\* get_user_id_by_email(email): the id, or NoStr for None
get_user_id_by_email(w, email) == IdOrNone(_find_user_by_email(w, Lower(Strip(email))))

\* _find_group_by_display_name, lines 167-171: the list call returned r
find_group_in(r) == FirstOrNone(r.w, ResourcesOf(r, 200))

\* _find_group_by_display_name(display_name): <<resource>> or <<>> (None)
_find_group_by_display_name(w, display_name) ==
    IF display_name = <<>> THEN [w |-> w, found |-> <<>>]
    ELSE find_group_in(scim_list_groups(w, [attr |-> "displayName", value |-> display_name]))

\* display.split(" ", 1): <<given, family>>
RECURSIVE SplitOnce(_, _)
SplitOnce(s, given) ==
    IF s = <<>> THEN <<given, <<>>>>
    ELSE IF Head(s) = " " THEN <<given, Tail(s)>>
    ELSE SplitOnce(Tail(s), Append(given, Head(s)))

\* ensure_user, lines 135-148: the minimal SCIM create payload
UserPayload(email_norm, display) ==
    [schemas |-> <<"urn:ietf:params:scim:schemas:core:2.0:User">>,
     userName |-> email_norm,
     name |-> [givenName |-> SplitOnce(display, <<>>)[1],
               familyName |-> SplitOnce(display, <<>>)[2],
               formatted |-> display],
     emails |-> <<[value |-> email_norm, primary |-> TRUE]>>,
     active |-> TRUE]

\* ensure_user, lines 149-159: the create call returned c
ensure_user_created(c, email_norm, payload) ==
    IF c.out.status_code \notin {200, 201}
    THEN [w |-> append_audit(c.w, "CREATE_USER", "user", email_norm, "FAILED",
                             Text("{body}", <<c.out.body>>), NoCode,
                             NoBody, <<payload>>),
          existed |-> FALSE, id |-> NoStr,
          error |-> <<Text("{body}", <<c.out.body>>)>>, resp |-> EmptyDict]
    ELSE [w |-> append_audit(c.w, "CREATE_USER", "user", email_norm, "SUCCESS",
                             Text("created", <<>>), <<c.out.status_code>>,
                             <<c.out>>, <<payload>>),
          existed |-> FALSE, id |-> Get(c.out.body, "id", NoStr),
          error |-> <<>>, resp |-> c.out]

\* ensure_user, lines 130-150: the lookup returned f
ensure_user_looked_up(f, email_norm, display_name) ==
    IF f.found # <<>>
    THEN [w |-> f.w, existed |-> TRUE, id |-> Get(f.found[1], "id", NoStr),
          error |-> <<>>, resp |-> EmptyDict]
    ELSE ensure_user_created(
             scim_create_user(f.w, UserPayload(email_norm,
                 Strip(IF display_name # <<>> THEN display_name ELSE email_norm))),
             email_norm,
             UserPayload(email_norm,
                 Strip(IF display_name # <<>> THEN display_name ELSE email_norm)))

\* ensure_user, lines 126-130, email_norm being the normalised email
ensure_user_norm(w, email_norm, display_name) ==
    IF email_norm = <<>>
    THEN [w |-> w, existed |-> FALSE, id |-> NoStr, error |-> <<"no_email_provided">>,
          resp |-> EmptyDict]
    ELSE ensure_user_looked_up(_find_user_by_email(w, email_norm), email_norm, display_name)

\* ensure_user(email, display_name)
ensure_user(w, email, display_name) == ensure_user_norm(w, Lower(Strip(email)), display_name)

(***************************************************************************)
(* handlers.py: the handlers.  A handler yields the world afterwards and   *)
(* either the mapping it returns (exc = "") or the exception it raises.    *)
(***************************************************************************)
Return(w, val) == [w |-> w, exc |-> "", msg |-> Text("", <<>>), val |-> val]
Raise(w, exc, msg) == [w |-> w, exc |-> exc, msg |-> msg, val |-> EmptyDict]

\* create_user_handler, lines 188-193
DisplayName(first_name, last_name, email) ==
    IF first_name # <<>> \/ last_name # <<>>
    THEN Strip(first_name \o (IF last_name # <<>> THEN <<" ">> \o last_name ELSE <<>>))
    ELSE email

\* create_user_handler, lines 205-208: ensure_user returned result
create_user_ensured(result) ==
    IF result.id # NoStr
    THEN Return(result.w, [status |-> "created", id |-> result.id, resp |-> result.resp])
    ELSE Raise(result.w, "RuntimeError", Text("create_user failed: {error}", result.error))

\* create_user_handler, lines 200-204: the lookup returned f
create_user_looked_up(f, email, display_name) ==
    IF f.found # <<>>
    THEN Return(append_audit(f.w, "CREATE_USER", "user", email, "SKIPPED",
                             Text("already_exists", <<>>), NoCode,
                             NoBody, NoPayload),
                [status |-> "skipped", id |-> Get(f.found[1], "id", NoStr)])
    ELSE create_user_ensured(ensure_user(f.w, email, display_name))

\* create_user_handler, lines 195-199
create_user_email(w, email, display_name) ==
    IF email = <<>>
    THEN Raise(append_audit(w, "CREATE_USER", "user", <<>>, "FAILED",
                            Text("user_email missing", <<>>), NoCode,
                            NoBody, NoPayload),
               "ValueError", Text("user_email required", <<>>))
    ELSE create_user_looked_up(_find_user_by_email(w, email), email, display_name)

\* create_user_handler(row)
create_user_handler(w, row) ==
    create_user_email(w, Lower(Strip(Field(row, "user_email"))),
                      DisplayName(Strip(Field(row, "first_name")),
                                  Strip(Field(row, "last_name")),
                                  Lower(Strip(Field(row, "user_email")))))

\* json.loads over the texts the rows carry: "{}" is the empty object and a
\* text that does not start a JSON value is a JSONDecodeError
JsonLoads(text) ==
    IF text = <<"{", "}">> THEN [ok |-> TRUE, val |-> EmptyDict]
    ELSE [ok |-> FALSE, val |-> EmptyDict]

PatchOpSchema == <<"urn:ietf:params:scim:api:messages:2.0:PatchOp">>

\* update_user_handler, lines 230-234: the operations of the parsed attributes
AttrOps(attrs) ==
    (IF "displayName" \in DOMAIN attrs
     THEN <<[op |-> "replace", path |-> "displayName", value |-> attrs.displayName]>>
     ELSE <<>>)
    \o (IF "active" \in DOMAIN attrs
        THEN <<[op |-> "replace", path |-> "active", value |-> attrs.active]>>
        ELSE <<>>)

\* update_user_handler, lines 251-257: the patch call returned c
update_user_patched(c, email, ops) ==
    Return(append_audit(c.w, "UPDATE_USER", "user", email, "SUCCESS", Text("patched", <<>>),
                        <<200>>, <<c.out>>, <<ops>>),
           [status |-> "updated", resp |-> c.out])

\* update_user_handler, lines 240-245: the name operation is added unless an
\* operation on displayName or name.formatted is there
WithNameOp(operations, composed) ==
    operations
    \o (IF composed # <<>>
           /\ \A i \in DOMAIN operations :
                 operations[i].path \notin {"displayName", "name.formatted"}
        THEN <<[op |-> "replace", path |-> "name.formatted", value |-> composed]>>
        ELSE <<>>)

\* update_user_handler, lines 247-252
update_user_ops(w, email, user_id, operations) ==
    IF operations = <<>>
    THEN Return(append_audit(w, "UPDATE_USER", "user", email, "NOOP",
                             Text("nothing to update", <<>>), NoCode, NoBody, NoPayload),
                [status |-> "noop"])
    ELSE update_user_patched(
             scim_patch_user(w, user_id,
                             [schemas |-> PatchOpSchema, Operations |-> operations]),
             email, [schemas |-> PatchOpSchema, Operations |-> operations])

\* update_user_handler, lines 226-238: attrs_json is the stripped
\* attributes_json and parsed the result of json.loads on it
update_user_attrs(w, email, user_id, attrs_json, parsed, composed) ==
    IF attrs_json = <<>> THEN update_user_ops(w, email, user_id, WithNameOp(<<>>, composed))
    ELSE IF ~parsed.ok
    THEN Raise(append_audit(w, "UPDATE_USER", "user", email, "FAILED",
                            Text("invalid attributes_json: {e}", <<"JSONDecodeError">>),
                            NoCode, NoBody, <<attrs_json>>),
               "JSONDecodeError", Text("{e}", <<"JSONDecodeError">>))
    ELSE update_user_ops(w, email, user_id, WithNameOp(AttrOps(parsed.val), composed))

\* update_user_handler, lines 218-226: the lookup returned f
update_user_looked_up(f, row, email) ==
    IF f.found = <<>>
    THEN Raise(append_audit(f.w, "UPDATE_USER", "user", email, "NOT_FOUND",
                            Text("user not found", <<>>), NoCode, NoBody, NoPayload),
               "ValueError", Text("user not found", <<>>))
    ELSE update_user_attrs(f.w, email, Get(f.found[1], "id", NoStr),
                           Strip(Field(row, "attributes_json")),
                           JsonLoads(Strip(Field(row, "attributes_json"))),
                           IF Strip(Field(row, "first_name")) # <<>>
                              \/ Strip(Field(row, "last_name")) # <<>>
                           THEN DisplayName(Strip(Field(row, "first_name")),
                                            Strip(Field(row, "last_name")), <<>>)
                           ELSE <<>>)

\* update_user_handler, lines 213-218
update_user_email(w, row, email) ==
    IF email = <<>>
    THEN Raise(append_audit(w, "UPDATE_USER", "user", <<>>, "FAILED",
                            Text("user_email required", <<>>), NoCode, NoBody, NoPayload),
               "ValueError", Text("user_email required", <<>>))
    ELSE update_user_looked_up(_find_user_by_email(w, email), row, email)

\* update_user_handler(row)
update_user_handler(w, row) == update_user_email(w, row, Lower(Strip(Field(row, "user_email"))))

\* delete_user_handler, lines 275-281: the delete call returned c
delete_user_deleted(c, user_id) ==
    Return(append_audit(c.w, "DELETE_USER", "user", user_id, "SUCCESS", Text("deleted", <<>>),
                        <<204>>, NoBody, NoPayload),
           [status |-> "deleted", id |-> user_id])

\* delete_user_handler, lines 269-273: the lookup returned f
delete_user_looked_up(f, email) ==
    IF f.found = <<>>
    THEN Raise(append_audit(f.w, "DELETE_USER", "user", email, "NOT_FOUND", Text("", <<>>),
                            NoCode, NoBody, NoPayload),
               "ValueError", Text("user not found", <<>>))
    ELSE delete_user_deleted(scim_delete_user(f.w, Get(f.found[1], "id", NoStr)),
                             Get(f.found[1], "id", NoStr))

\* delete_user_handler, lines 264-269
delete_user_email(w, email) ==
    IF email = <<>>
    THEN Raise(append_audit(w, "DELETE_USER", "user", <<>>, "FAILED",
                            Text("user_id or user_email required", <<>>), NoCode, NoBody,
                            NoPayload),
               "ValueError", Text("user_id or user_email required", <<>>))
    ELSE delete_user_looked_up(_find_user_by_email(w, email), email)

\* delete_user_handler(row)
delete_user_handler(w, row) ==
    IF Strip(Field(row, "user_id")) # <<>>
    THEN delete_user_deleted(scim_delete_user(w, Strip(Field(row, "user_id"))),
                             Strip(Field(row, "user_id")))
    ELSE delete_user_email(w, Lower(Strip(IF Field(row, "user_email") # <<>>
                                          THEN Field(row, "user_email")
                                          ELSE Field(row, "email"))))

\* the member resolution loop of create_group_handler (lines 303-310) and
\* add_members_to_group_handler (lines 376-383)
RECURSIVE resolve_members(_, _, _, _)

\* the loop body, u being the result of get_user_id_by_email for the head
resolve_member(u, members, member_objs, missing_members) ==
    IF u.id # NoStr
    THEN resolve_members(u.w, Tail(members),
                         Append(member_objs, [value |-> u.id]), missing_members)
    ELSE resolve_members(u.w, Tail(members),
                         member_objs, Append(missing_members, Head(members)))

\* the loop body dropping a member without a user id
resolve_member_drop(u, members, member_objs, missing_members) ==
    IF u.id # NoStr
    THEN resolve_members(u.w, Tail(members),
                         Append(member_objs, [value |-> u.id]), missing_members)
    ELSE resolve_members(u.w, Tail(members), member_objs, missing_members)

\* resolve_members that drops a member without a user id instead of
\* recording it as missing
resolve_members_drop_missing(w, members, member_objs, missing_members) ==
    IF members = <<>>
    THEN [w |-> w, member_objs |-> member_objs, missing_members |-> missing_members]
    ELSE resolve_member_drop(get_user_id_by_email(w, Head(members)),
                             members, member_objs, missing_members)

resolve_members(w, members, member_objs, missing_members) ==
    IF members = <<>>
    THEN [w |-> w, member_objs |-> member_objs, missing_members |-> missing_members]
    ELSE resolve_member(get_user_id_by_email(w, Head(members)),
                        members, member_objs, missing_members)


\* the add-members payload carrying the first member only
AddMembersPatch_first_only(member_objs) ==
    [schemas |-> PatchOpSchema,
     Operations |-> <<[op |-> "add", path |-> "members", value |-> SubSeq(member_objs, 1, 1)]>>]

\* the PatchOp payload that adds member_objs to a group
AddMembersPatch(member_objs) ==
    [schemas |-> PatchOpSchema,
     Operations |-> <<[op |-> "add", path |-> "members", value |-> member_objs]>>]

\* create_group_handler, line 318: create_payload
GroupPayload(group_name) ==
    [schemas |-> <<"urn:ietf:params:scim:schemas:core:2.0:Group">>,
     displayName |-> group_name]

\* create_group_handler, lines 339-349: the members patch returned p
create_group_patched(p, c, group_name, member_objs) ==
    IF p.out.status_code \notin {200, 204}
    THEN Raise(append_audit(p.w, "CREATE_GROUP", "group", group_name, "FAILED",
                            Text("members patch failed: {body}", <<p.out.body>>), NoCode,
                            NoBody, <<AddMembersPatch(member_objs)>>),
               "RuntimeError", Text("{body}", <<p.out.body>>))
    ELSE Return(append_audit(p.w, "CREATE_GROUP", "group", group_name, "SUCCESS",
                             Text("added {n} members", <<Len(member_objs)>>),
                             <<p.out.status_code>>,
                             <<p.out>>, <<AddMembersPatch(member_objs)>>),
                [status |-> "created", resp |-> c.out, members_patched |-> TRUE])

\* create_group_handler, lines 322-351: the create call returned c
create_group_created(c, group_name, member_objs) ==
    IF c.out.status_code \notin {200, 201}
    THEN Raise(append_audit(c.w, "CREATE_GROUP", "group", group_name, "FAILED",
                            Text("{body}", <<c.out.body>>), NoCode,
                            NoBody, <<GroupPayload(group_name)>>),
               "RuntimeError", Text("{body}", <<c.out.body>>))
    ELSE IF member_objs = <<>>
    THEN Return(append_audit(c.w, "CREATE_GROUP", "group", group_name, "SUCCESS",
                             Text("created", <<>>), <<c.out.status_code>>,
                             <<c.out>>, <<GroupPayload(group_name)>>),
                [status |-> "created", resp |-> c.out, members_patched |-> FALSE])
    ELSE create_group_patched(
             scim_patch_group(append_audit(c.w, "CREATE_GROUP", "group", group_name, "SUCCESS",
                                           Text("created", <<>>), <<c.out.status_code>>,
                                           <<c.out>>, <<GroupPayload(group_name)>>),
                              Get(c.out.body, "id", NoStr),
                              AddMembersPatch(member_objs)),
             c, group_name, member_objs)

\* create_group_handler, lines 312-321: the members were resolved to rm
create_group_resolved(rm, group_name) ==
    IF rm.missing_members # <<>>
    THEN Raise(append_audit(rm.w, "CREATE_GROUP", "group", group_name, "FAILED",
                            Text("Cannot create group. These users do not exist: {missing}",
                                 rm.missing_members), NoCode,
                                 NoBody, NoPayload),
               "ValueError",
               Text("Cannot create group. These users do not exist: {missing}",
                    rm.missing_members))
    ELSE create_group_created(
             scim_create_group(rm.w, GroupPayload(group_name)),
             group_name, rm.member_objs)

\* create_group_handler, lines 297-310: the existence check returned
\* existing_group
create_group_checked(existing_group, row, group_name) ==
    IF existing_group.found # <<>>
    THEN Raise(append_audit(existing_group.w, "CREATE_GROUP", "group", group_name, "FAILED",
                            Text("Group already exists. Use add_to_group to add members.", <<>>),
                            NoCode,
                            NoBody, NoPayload),
               "ValueError",
               Text("Group already exists. Use add_to_group to add members.", <<>>))
    ELSE create_group_resolved(
             resolve_members(existing_group.w, _split_members(Field(row, "group_members")),
                             <<>>, <<>>),
             group_name)

\* create_group_handler, lines 290-296: construct_group_name returned gn
create_group_named(w, row, gn) ==
    IF gn.exc # "" THEN Raise(w, gn.exc, Text(gn.msg, <<>>))
    ELSE IF gn.name = <<>>
    THEN Raise(append_audit(w, "CREATE_GROUP", "group", <<>>, "FAILED",
                            Text("cannot construct group_name from row data", <<>>), NoCode,
                            NoBody, NoPayload),
               "ValueError", Text("group_name required", <<>>))
    ELSE create_group_checked(_find_group_by_display_name(w, gn.name), row, gn.name)

\* create_group_handler(row)
create_group_handler(w, row) == create_group_named(w, row, construct_group_name(row))

\* add_members_to_group_handler, lines 393-401: the patch returned p
add_members_patched(p, group_name, member_objs) ==
    IF p.out.status_code \notin {200, 204}
    THEN Raise(append_audit(p.w, "ADD_TO_GROUP", "group", group_name, "FAILED",
                            Text("{body}", <<p.out.body>>), NoCode,
                            NoBody, <<AddMembersPatch(member_objs)>>),
               "RuntimeError", Text("{body}", <<p.out.body>>))
    ELSE Return(append_audit(p.w, "ADD_TO_GROUP", "group", group_name, "SUCCESS",
                             Text("added {n}", <<Len(member_objs)>>), <<p.out.status_code>>,
                             <<p.out>>, <<AddMembersPatch(member_objs)>>),
                [status |-> "added", resp |-> p.out])

\* add_members_to_group_handler, lines 385-393: the members were resolved
add_members_resolved(rm, group_name, group_id) ==
    IF rm.missing_members # <<>>
    THEN Raise(append_audit(rm.w, "ADD_TO_GROUP", "group", group_name, "FAILED",
                            Text("Cannot add members. These users do not exist: {missing}",
                                 rm.missing_members), NoCode,
                                 NoBody, NoPayload),
               "ValueError",
               Text("Cannot add members. These users do not exist: {missing}",
                    rm.missing_members))
    ELSE add_members_patched(scim_patch_group(rm.w, group_id, AddMembersPatch(rm.member_objs)),
                             group_name, rm.member_objs)

\* add_members_to_group_handler, lines 369-383: the group lookup returned
\* group
add_members_group(group, group_name, members) ==
    IF group.found = <<>>
    THEN Raise(append_audit(group.w, "ADD_TO_GROUP", "group", group_name, "NOT_FOUND",
                            Text("group not found", <<>>), NoCode,
                            NoBody, NoPayload),
               "ValueError", Text("group not found", <<>>))
    ELSE add_members_resolved(resolve_members(group.w, members, <<>>, <<>>),
                              group_name, Get(group.found[1], "id", NoStr))

\* add_members_to_group_handler, lines 359-369
add_members_named(w, gn, members) ==
    IF gn.exc # "" THEN Raise(w, gn.exc, Text(gn.msg, <<>>))
    ELSE IF gn.name = <<>>
    THEN Raise(append_audit(w, "ADD_TO_GROUP", "group", <<>>, "FAILED",
                            Text("cannot construct group_name", <<>>), NoCode,
                            NoBody, NoPayload),
               "ValueError", Text("group_name required", <<>>))
    ELSE IF members = <<>>
    THEN Return(append_audit(w, "ADD_TO_GROUP", "group", gn.name, "NOOP",
                             Text("no members specified", <<>>), NoCode,
                             NoBody, NoPayload),
                [status |-> "noop"])
    ELSE add_members_group(_find_group_by_display_name(w, gn.name), gn.name, members)

\* add_members_to_group_handler(row)
add_members_to_group_handler(w, row) ==
    add_members_named(w, construct_group_name(row),
                      _split_members(Field(row, "group_members")))

\* remove_members_from_group_handler, lines 438-439: the PatchOp payload
\* that removes the member uid, its path being members[value eq "<uid>"]
RemoveMemberPatch(uid) ==
    [schemas |-> PatchOpSchema,
     Operations |-> <<[op |-> "remove", path |-> [attr |-> "members", value |-> uid]]>>]

\* the per-member loop of remove_members_from_group_handler (lines 427-446)
RECURSIVE remove_members(_, _, _, _, _)

\* lines 441-443: the removal patch returned p.  scim_patch_group returns an
\* Outcome for every behaviour of the remote, and the handler does not read
\* it before recording the removal.
remove_member_patched(p, group_name, group_id, members, results, uid) ==
    remove_members(append_audit(p.w, "REMOVE_FROM_GROUP", "group", group_name, "SUCCESS",
                                Text("removed {uid}", <<uid>>), <<200>>, <<p.out>>,
                                <<RemoveMemberPatch(uid)>>),
                   group_name, group_id, Tail(members),
                   Append(results, [member |-> Head(members), id |-> uid,
                                    status |-> "removed"]))

\* lines 433-441, uid being the user id or the fallback candidate
remove_member_uid(w, group_name, group_id, members, results, uid) ==
    IF uid = NoStr
    THEN remove_members(append_audit(w, "REMOVE_FROM_GROUP", "group", group_name, "SKIPPED",
                                     Text("user not found {m}", <<Head(members)>>), NoCode,
                                     NoBody, <<Head(members)>>),
                        group_name, group_id, Tail(members),
                        Append(results, [member |-> Head(members), status |-> "skipped"]))
    ELSE remove_member_patched(scim_patch_group(w, group_id, RemoveMemberPatch(uid)),
                               group_name, group_id, members, results, uid)

\* lines 428-432: get_user_id_by_email returned u; a member without a user
\* id is itself taken as the id
remove_member(u, group_name, group_id, members, results) ==
    remove_member_uid(u.w, group_name, group_id, members, results,
                      IF u.id # NoStr THEN u.id ELSE Head(members))

remove_members(w, group_name, group_id, members, results) ==
    IF members = <<>>
    THEN [w |-> w, results |-> results]
    ELSE remove_member(get_user_id_by_email(w, Head(members)),
                       group_name, group_id, members, results)

\* remove_members_from_group_handler, line 448: rl is the result of the loop
remove_members_done(rl) ==
    Return(rl.w,
           [status |-> IF \E i \in DOMAIN rl.results : rl.results[i].status # "removed"
                       THEN "partial" ELSE "removed_all",
            results |-> rl.results])

\* remove_members_from_group_handler, lines 420-427: the group lookup
\* returned group
remove_members_group(group, group_name, members) ==
    IF group.found = <<>>
    THEN Raise(append_audit(group.w, "REMOVE_FROM_GROUP", "group", group_name, "NOT_FOUND",
                            Text("group not found", <<>>), NoCode, NoBody, NoPayload),
               "ValueError", Text("group not found", <<>>))
    ELSE remove_members_done(remove_members(group.w, group_name,
                                            Get(group.found[1], "id", NoStr), members, <<>>))

\* remove_members_from_group_handler, lines 410-420
remove_members_named(w, gn, members) ==
    IF gn.exc # "" THEN Raise(w, gn.exc, Text(gn.msg, <<>>))
    ELSE IF gn.name = <<>>
    THEN Raise(append_audit(w, "REMOVE_FROM_GROUP", "group", <<>>, "FAILED",
                            Text("cannot construct group_name", <<>>), NoCode,
                            NoBody, NoPayload),
               "ValueError", Text("group_name required", <<>>))
    ELSE IF members = <<>>
    THEN Return(append_audit(w, "REMOVE_FROM_GROUP", "group", gn.name, "NOOP",
                             Text("no members specified", <<>>), NoCode,
                             NoBody, NoPayload),
                [status |-> "noop"])
    ELSE remove_members_group(_find_group_by_display_name(w, gn.name), gn.name, members)

\* remove_members_from_group_handler(row)
remove_members_from_group_handler(w, row) ==
    remove_members_named(w, construct_group_name(row),
                         _split_members(Field(row, "group_members")))

(***************************************************************************)
(* databricks_api.py: cluster policies, clusters and SQL warehouses of the *)
(* remote workspace.  An operation yields the world afterwards and either  *)
(* the value it returns (exc = "") or the exception it raises.             *)
(***************************************************************************)
\* the elements of S as a list, in the order the remote lists them
RECURSIVE ListOf(_)
ListOf(S) ==
    IF S = {} THEN <<>>
    ELSE <<CHOOSE x \in S : TRUE>> \o ListOf(S \ {CHOOSE x \in S : TRUE})

\* the world after _auth_headers() was evaluated for a headers= argument
AuthHeadersFetched(w) ==
    [w EXCEPT !.cache = auth_headers(w.cache, w.clock, TokOk("t2", 3600)).cache]

\* _safe_request(method, url, headers=h, retries=FAST_RETRIES), h being
\* the value of _auth_headers()
ws_call_with(w, method, url, arg, honest, h) ==
    Called(w, method, url, arg,
           _safe_request(method, url, FAST_RETRIES, h.headers,
                         Attempts(BehOf(w), honest), h.cache, w.clock))

\* One call of a workspace wrapper: the headers are obtained once, before
\* _safe_request is entered.
ws_call(w, method, url, arg, honest) ==
    ws_call_with(w, method, url, arg, honest,
                 auth_headers(w.cache, w.clock, TokOk("t2", 3600)))

\* api_response.get("error") or str(response_body)
ErrorMsg(out) == Get(out, "error", out.body)

\* the entries of list whose attribute key equals name, in list order
Named(list, key, name) == SelectSeq(list, LAMBDA x : Get(x, key, NoStr) = name)

\* get_policy_id, lines 246-257: matching are the listed policies of the name
policy_found(w, matching, policy_name) ==
    IF matching # <<>> /\ Get(matching[1], "policy_id", NoStr) # NoStr
    THEN Return(w, matching[1].policy_id)
    ELSE Raise(w, "RuntimeError",
               Text("Cluster policy '{policy_name}' not found in the workspace.",
                    <<policy_name>>))

\* get_policy_id, lines 237-246: the list call returned r
policy_listed(r, policy_name) ==
    IF r.out.status_code # 200
    THEN Raise(r.w, "RuntimeError",
               Text("Failed to retrieve cluster policies list. API Error: {error_msg}",
                    <<ErrorMsg(r.out)>>))
    ELSE policy_found(r.w, Named(Get(r.out.body, "policies", <<>>), "name", policy_name),
                      policy_name)

\* get_policy_id(policy_name)
get_policy_id(w, policy_name) ==
    policy_listed(ws_call(w, "GET", UrlOf("policies/clusters/list", NoStr), EmptyDict,
                          HttpResp(200, <<[policies |-> ListOf(w.policies)]>>, "json")),
                  policy_name)

\* the digits of a literal after its sign, if it has one
Unsigned(s) == IF s # <<>> /\ s[1] \in {"+", "-"} THEN Tail(s) ELSE s

\* int(s) accepts s: surrounding whitespace, an optional sign and decimal
\* digits (underscores between digits are not among the inputs explored)
IsIntLiteral(s) ==
    /\ Unsigned(Strip(s)) # <<>>
    /\ \A i \in DOMAIN Unsigned(Strip(s)) : IsDigit(Unsigned(Strip(s))[i])

\* int(s), for an s that int() accepts
IntOf(s) ==
    IF Strip(s)[1] = "-" THEN 0 - NatOf(Unsigned(Strip(s))) ELSE NatOf(Unsigned(Strip(s)))

\* int(base_workers or 1), for a base_workers that int() accepts
WorkersOf(base_workers) == IF base_workers = <<>> THEN 1 ELSE IntOf(base_workers)

Max(a, b) == IF a >= b THEN a ELSE b

\* the create payload with min = w and max = 2 * w
ClusterPayload_unclamped(application_name, policy_id, node_type_id, workers, project_tags) ==
    [cluster_name |-> application_name,
     cluster_type |-> "all-purpose",
     spark_version |-> "16.4.x-scala2.12",
     node_type_id |-> node_type_id,
     driver_node_type_id |-> node_type_id,
     autotermination_minutes |-> 10,
     autoscale |-> [min_workers |-> workers, max_workers |-> workers * 2],
     custom_tags |-> project_tags,
     data_security_mode |-> "USER_ISOLATION",
     policy_id |-> policy_id]

\* create_all_purpose_cluster, lines 341-355: the create payload
ClusterPayload(application_name, policy_id, node_type_id, workers, project_tags) ==
    [cluster_name |-> application_name,
     cluster_type |-> "all-purpose",
     spark_version |-> "16.4.x-scala2.12",
     node_type_id |-> node_type_id,
     driver_node_type_id |-> node_type_id,
     autotermination_minutes |-> 10,
     autoscale |-> [min_workers |-> Max(1, workers), max_workers |-> Max(2, workers * 2)],
     custom_tags |-> project_tags,
     data_security_mode |-> "USER_ISOLATION",
     policy_id |-> policy_id]

\* requests.post(url, headers=headers, json=payload): one attempt, made
\* outside _safe_request; http is what the HTTP layer does on it
Posted(w, url, payload, http) ==
    [raised |-> IF http.kind = "exc" THEN "RequestException" ELSE "",
     resp |-> http,
     reached |-> BehOf(w) = "honest",
     w |-> [w EXCEPT !.reqs = Append(@, [method |-> "POST", url |-> url, arg |-> payload,
                                         status |-> IF http.kind = "resp"
                                                    THEN http.status_code ELSE 0,
                                         body |-> IF http.kind = "resp" /\ http.json # <<>>
                                                  THEN http.json[1] ELSE EmptyDict,
                                         attempts |-> 1,
                                         audits |-> Len(w.audit),
                                         ctx_row |-> w.ctx.row_id]),
                     !.k = @ + 1]]

\* the workspace after the create request c, when the remote processed it:
\* the remote does not require cluster names to be unique
ClusterAdded(c, payload) ==
    IF c.reached
    THEN [c.w EXCEPT !.clusters = @ \cup {[cluster_id |-> IdOf(c.w.next_id),
                                           cluster_name |-> payload.cluster_name,
                                           autoscale |-> payload.autoscale,
                                           custom_tags |-> payload.custom_tags,
                                           policy_id |-> payload.policy_id]},
                     !.next_id = @ + 1]
    ELSE c.w

\* create_all_purpose_cluster, lines 357-362: the create request ended as c
cluster_posted(c, payload) ==
    IF c.raised # ""
    THEN Raise(c.w, c.raised, Text("{e}", <<>>))
    ELSE IF c.resp.status_code # 200
    THEN Raise(c.w, "RuntimeError", Text("Cluster creation failed: {text}", <<c.resp.text>>))
    ELSE IF c.resp.json = <<>>
    THEN Raise(ClusterAdded(c, payload), "JSONDecodeError", Text("{e}", <<>>))
    ELSE IF "cluster_id" \notin DOMAIN c.resp.json[1]
    THEN Raise(ClusterAdded(c, payload), "KeyError", Text("cluster_id", <<>>))
    ELSE Return(ClusterAdded(c, payload), c.resp.json[1].cluster_id)

\* create_all_purpose_cluster, lines 341-357: w is the world with the
\* headers obtained
cluster_create(w, payload) ==
    cluster_posted(Posted(w, UrlOf("clusters/create", NoStr), payload,
                          Attempts(BehOf(w),
                                   HttpResp(200, <<[cluster_id |-> IdOf(w.next_id)]>>,
                                            "json"))[1].http),
                   payload)

\* create_all_purpose_cluster, lines 338-350
cluster_with_headers(w, application_name, policy_id, node_type_id, base_workers, project_tags) ==
    IF base_workers # <<>> /\ ~IsIntLiteral(base_workers)
    THEN Raise(w, "ValueError",
               Text("invalid literal for int() with base 10: {s}", <<base_workers>>))
    ELSE cluster_create(w, ClusterPayload(application_name, policy_id, node_type_id,
                                          WorkersOf(base_workers), project_tags))

\* create_all_purpose_cluster(application_name, policy_id, node_type_id,
\*                            base_workers, environment, project_tags)
create_all_purpose_cluster(w, application_name, policy_id, node_type_id, base_workers, environment, project_tags) ==
    cluster_with_headers(AuthHeadersFetched(w), application_name, policy_id, node_type_id,
                         base_workers, project_tags)

\* get_sql_warehouse_id, lines 375-388: the list call returned r
warehouse_listed(r, wh_name) ==
    IF r.out.status_code # 200
    THEN Raise(r.w, "RuntimeError",
               Text("Failed to retrieve warehouse list. API Error: {error_msg}",
                    <<ErrorMsg(r.out)>>))
    ELSE IF Named(Get(r.out.body, "warehouses", <<>>), "name", wh_name) # <<>>
    THEN Return(r.w, Get(Named(Get(r.out.body, "warehouses", <<>>), "name", wh_name)[1],
                         "id", NoStr))
    ELSE Return(r.w, NoStr)

\* get_sql_warehouse_id(wh_name): the id, or NoStr for None
get_sql_warehouse_id(w, wh_name) ==
    warehouse_listed(ws_call(w, "GET", UrlOf("sql/warehouses", NoStr), EmptyDict,
                             HttpResp(200, <<[warehouses |-> SeqOf(w.warehouses)]>>, "json")),
                     wh_name)

\* f"{application_name}_Reporting_wh"
WarehouseName(application_name) ==
    application_name \o <<"_", "R", "e", "p", "o", "r", "t", "i", "n", "g", "_", "w", "h">>

\* create_sql_warehouse, line 400: the tags with a non-empty value, as a
\* list of key/value pairs in the order of the tag keys
TagList(keys, project_tags) ==
    [i \in DOMAIN SelectSeq(keys, LAMBDA k : project_tags[k] # <<>>) |->
        [key |-> SelectSeq(keys, LAMBDA k : project_tags[k] # <<>>)[i],
         value |-> project_tags[SelectSeq(keys, LAMBDA k : project_tags[k] # <<>>)[i]]]]

\* the keys of project_tags in insertion order
ProjectTagKeys ==
    <<"application_name", "environment", "cost_center", "department", "business_owner">>

\* create_sql_warehouse, lines 403-411: the create payload
WarehousePayload(wh_name, sql_wh_size, project_tags) ==
    [name |-> wh_name,
     cluster_size |-> sql_wh_size,
     auto_stop_mins |-> 10,
     min_num_clusters |-> 1,
     max_num_clusters |-> 2,
     enable_serverless_compute |-> TRUE,
     tags |-> [custom_tags |-> TagList(ProjectTagKeys, project_tags)]]

\* the workspace after the create call c, when the remote processed it
WarehouseAdded(c, payload) ==
    IF c.reached
    THEN [c.w EXCEPT !.warehouses = @ \cup {[id |-> IdOf(c.w.next_id),
                                             name |-> payload.name,
                                             tags |-> payload.tags]},
                     !.next_id = @ + 1]
    ELSE c.w

\* create_sql_warehouse, lines 424-437: the create call returned c
warehouse_posted(c, payload) ==
    IF c.out.status_code # 200
    THEN Raise(WarehouseAdded(c, payload), "RuntimeError",
               Text("Failed to create SQL Warehouse '{wh_name}'. API Error: {error_msg}",
                    <<payload.name, ErrorMsg(c.out)>>))
    ELSE IF Get(c.out.body, "id", NoStr) = NoStr
    THEN Raise(WarehouseAdded(c, payload), "RuntimeError",
               Text("SQL Warehouse creation succeeded but ID was missing from response body: {body}",
                    <<c.out.body>>))
    ELSE Return(WarehouseAdded(c, payload), c.out.body.id)

\* create_sql_warehouse, lines 395-422: the lookup ended as f
warehouse_looked_up(f, payload) ==
    IF f.exc # "" THEN f
    ELSE IF f.val # NoStr THEN Return(f.w, f.val)
    ELSE warehouse_posted(ws_call(f.w, "POST", UrlOf("sql/warehouses", NoStr), payload,
                                  HttpResp(200, <<[id |-> IdOf(f.w.next_id)]>>, "json")),
                          payload)

\* create_sql_warehouse(application_name, sql_wh_size, project_tags)
create_sql_warehouse(w, application_name, sql_wh_size, project_tags) ==
    warehouse_looked_up(get_sql_warehouse_id(w, WarehouseName(application_name)),
                        WarehousePayload(WarehouseName(application_name), sql_wh_size,
                                         project_tags))

(***************************************************************************)
(* handlers.py: onboard_project_handler, and its route in app.py           *)
(***************************************************************************)
\* POLICY_NAME_TO_USE
PolicyName ==
    <<"U","n","i","f","i","e","d","-","A","l","l","-","P","u","r","p","o","s","e","-",
      "C","o","m","p","u","t","e">>

AllPurpose == <<"a", "l", "l", "-", "p", "u", "r", "p", "o", "s", "e">>
Job == <<"j", "o", "b">>

\* onboard_project_handler, lines 674-680
ProjectTags(row, app_name, environment) ==
    [application_name |-> app_name,
     environment |-> environment,
     cost_center |-> Get(row, "cost_center", <<>>),
     department |-> Get(row, "department", <<>>),
     business_owner |-> Get(row, "business_owner", <<>>)]

\* onboard_project_handler, lines 747-757: the exception with text e was
\* caught
onboard_failed(w, app_name, cluster_type, e) ==
    Raise(append_audit(w, "ONBOARD_PROJECT", "project", app_name, "FAILED", e, NoCode,
                       NoBody, NoPayload),
          "ValueError", Text("Invalid cluster_type received: {cluster_type}", <<cluster_type>>))

\* lines 692-715: create_all_purpose_cluster ended as cr
onboard_cluster(cr, app_name, cluster_type, environment) ==
    IF cr.exc # "" THEN onboard_failed(cr.w, app_name, cluster_type, cr.msg)
    ELSE Return(append_audit(cr.w, "ONBOARD_PROJECT", "cluster", app_name, "SUCCESS",
                             Text("All-purpose cluster created: {cluster_id}", <<cr.val>>),
                             NoCode, NoBody, NoPayload),
                [application_name |-> app_name, cluster_id |-> cr.val,
                 cluster_type |-> AllPurpose, environment |-> environment,
                 status |-> "SUCCESS"])

\* lines 690-699: get_policy_id ended as pr
onboard_policy(pr, row, app_name, cluster_type, environment, project_tags) ==
    IF pr.exc # "" THEN onboard_failed(pr.w, app_name, cluster_type, pr.msg)
    ELSE onboard_cluster(
             create_all_purpose_cluster(pr.w, app_name, pr.val,
                                        Strip(Field(row, "node_type_id")),
                                        Field(row, "base_workers"), environment,
                                        project_tags),
             app_name, cluster_type, environment)

\* lines 722-742: create_sql_warehouse ended as wr
onboard_warehouse(wr, app_name, cluster_type, environment) ==
    IF wr.exc # "" THEN onboard_failed(wr.w, app_name, cluster_type, wr.msg)
    ELSE Return(append_audit(wr.w, "ONBOARD_PROJECT", "sql_warehouse", app_name, "SUCCESS",
                             Text("SQL Warehouse created: {wh_id}", <<wr.val>>),
                             NoCode, NoBody, NoPayload),
                [application_name |-> app_name, sql_wh_id |-> wr.val,
                 cluster_type |-> Job, environment |-> environment,
                 status |-> "SUCCESS"])

\* onboard_try that provisions a warehouse for every cluster_type other than
\* "all-purpose"
onboard_try_default_job(w, row, app_name, cluster_type, environment, project_tags) ==
    IF cluster_type = AllPurpose
    THEN onboard_policy(get_policy_id(w, PolicyName), row, app_name, cluster_type,
                        environment, project_tags)
    ELSE onboard_warehouse(create_sql_warehouse(w, app_name, Field(row, "sql_wh_size"),
                                                project_tags),
                           app_name, cluster_type, environment)

\* onboard_project_handler, lines 682-745: the branch on cluster_type
onboard_try(w, row, app_name, cluster_type, environment, project_tags) ==
    IF cluster_type = AllPurpose
    THEN onboard_policy(get_policy_id(w, PolicyName), row, app_name, cluster_type,
                        environment, project_tags)
    ELSE IF cluster_type = Job
    THEN onboard_warehouse(create_sql_warehouse(w, app_name, Field(row, "sql_wh_size"),
                                                project_tags),
                           app_name, cluster_type, environment)
    ELSE onboard_failed(w, app_name, cluster_type,
                        Text("Invalid cluster_type received: {cluster_type}",
                             <<cluster_type>>))

\* onboard_project_handler, lines 671-682
onboard_fields(w, row, app_name, cluster_type, environment) ==
    IF app_name = <<>>
    THEN Raise(w, "ValueError", Text("Application name is required", <<>>))
    ELSE onboard_try(w, row, app_name, cluster_type, environment,
                     ProjectTags(row, app_name, environment))

\* onboard_project_handler(row)
onboard_project_handler(w, row) ==
    onboard_fields(w, row, Strip(Field(row, "application_name")),
                   Lower(Strip(Field(row, "cluster_type"))),
                   Lower(Strip(Field(row, "environment"))))

\* f"{prefix}_{utc timestamp}_{os.urandom(4).hex()}"
RunId(prefix, clock, nonce) == [prefix |-> prefix, ts |-> clock, rnd |-> nonce]

\* onboard_project, lines 218-240: the audit context of the request; the
\* keys run_by and action are not context keys
OnboardContext(w, form_data, nonce) ==
    [w EXCEPT !.ctx =
        set_audit_context(
            set_audit_context(clear_audit_context(@),
                              [run_id |-> <<RunId("onboard", w.clock, nonce)>>,
                               run_by |-> <<NoStr>>,
                               action |-> <<"ONBOARD_PROJECT">>]),
            [row_id |-> <<0>>, request_payload |-> <<form_data>>])]

\* onboard_project, lines 246-263: the handler ended as r
onboard_handled(r, app_name) ==
    IF r.exc = ""
    THEN Return(r.w, [result |-> r.val, status_code |-> 200])
    ELSE Return(append_audit(r.w, "ONBOARD_PROJECT", "project", app_name, "FAILED", r.msg,
                             NoCode, NoBody, NoPayload),
                [result |-> [error |-> r.msg], status_code |-> 500])

\* onboard_project(): one POST request with the form form_data
onboard_project(w, form_data, nonce) ==
    onboard_handled(onboard_project_handler(OnboardContext(w, form_data, nonce), form_data),
                    IF Field(form_data, "application_name") # <<>>
                    THEN Field(form_data, "application_name")
                    ELSE <<"u", "n", "k", "n", "o", "w", "n", "_", "p", "r", "o", "j", "e", "c", "t">>)

(***************************************************************************)
(* app.py: process_row and the /run route                                  *)
(***************************************************************************)
CREATE_USER == <<"C","R","E","A","T","E","_","U","S","E","R">>
DELETE_USER == <<"D","E","L","E","T","E","_","U","S","E","R">>
UPDATE_USER == <<"U","P","D","A","T","E","_","U","S","E","R">>
CREATE_GROUP == <<"C","R","E","A","T","E","_","G","R","O","U","P">>
ADD_TO_GROUP == <<"A","D","D","_","T","O","_","G","R","O","U","P">>
REMOVE_FROM_GROUP == <<"R","E","M","O","V","E","_","F","R","O","M","_","G","R","O","U","P">>
UPDATE_GROUP == <<"U","P","D","A","T","E","_","G","R","O","U","P">>

\* a name that was computed without an exception
Identifier(name) == [exc |-> "", msg |-> "", name |-> name]

\* process_row, lines 199-210: the mapping returned, ident being the value of
\* row.get("user_email") or (construct_group_name(row) if ... else "")
process_row_identified(w, ix, row, action, resp, ident) ==
    IF ident.exc # "" THEN Raise(w, ident.exc, Text(ident.msg, <<>>))
    ELSE Return(w, [row |-> ix,
                    action |-> action,
                    principal_type |-> Get(row, "principal_type", <<>>),
                    identifier |-> IF ident.name # <<>> THEN ident.name
                                   ELSE Field(row, "admin"),
                    result |-> resp])

\* process_row, lines 199-210
process_row_return(w, ix, row, action, resp) ==
    process_row_identified(w, ix, row, action, resp,
        IF Field(row, "user_email") # <<>> THEN Identifier(Field(row, "user_email"))
        ELSE IF action \in {CREATE_GROUP, ADD_TO_GROUP, REMOVE_FROM_GROUP}
        THEN construct_group_name(row)
        ELSE Identifier(<<>>))

\* process_row, lines 188-197: the dispatch raised r; ident is the value of
\* the identifier expression
process_row_except(r, ix, row, action, ident) ==
    IF ident.exc # "" THEN Raise(r.w, ident.exc, Text(ident.msg, <<>>))
    ELSE process_row_return(
             append_audit(r.w, action, "error", ident.name, "FAILED", r.msg, NoCode, NoBody,
                          NoPayload),
             ix, row, action, [error |-> r.msg])

\* process_row, lines 171-197: the dispatch ended as r
process_row_dispatched(r, ix, row, action) ==
    IF r.exc = "" THEN process_row_return(r.w, ix, row, action, r.val)
    ELSE process_row_except(r, ix, row, action,
             IF Field(row, "action") \in {CREATE_GROUP, ADD_TO_GROUP, REMOVE_FROM_GROUP,
                                          UPDATE_GROUP}
             THEN IF Field(row, "user_email") # <<>>
                  THEN Identifier(Field(row, "user_email"))
                  ELSE construct_group_name(row)
             ELSE Identifier(<<>>))

\* process_row, lines 172-187: the branch on the action
process_row_dispatch(w, row, action) ==
    IF action = CREATE_USER THEN create_user_handler(w, row)
    ELSE IF action = DELETE_USER THEN delete_user_handler(w, row)
    ELSE IF action = UPDATE_USER THEN update_user_handler(w, row)
    ELSE IF action = CREATE_GROUP THEN create_group_handler(w, row)
    ELSE IF action = ADD_TO_GROUP THEN add_members_to_group_handler(w, row)
    ELSE IF action = REMOVE_FROM_GROUP THEN remove_members_from_group_handler(w, row)
    ELSE Return(append_audit(w, action, "unknown", <<>>, "FAILED",
                             Text("unknown action", <<>>), NoCode, NoBody, NoPayload),
                [error |-> Text("unknown action: {action}", <<action>>)])

\* process_row, line 170
process_row_action(w, ix, row, action) ==
    process_row_dispatched(process_row_dispatch(w, row, action), ix, row, action)

\* process_row(ix, row)
process_row(w, ix, row) == process_row_action(w, ix, row, Upper(Strip(Field(row, "action"))))

IsAlpha(c) ==
    \/ \E i \in DOMAIN UpperChars : UpperChars[i] = c
    \/ \E i \in DOMAIN LowerChars : LowerChars[i] = c

\* str.title()
Title(s) ==
    [i \in 1..Len(s) |-> IF i = 1 \/ ~IsAlpha(s[i - 1]) THEN UpperChar(s[i])
                         ELSE LowerChar(s[i])]

\* run_action, lines 144-148: res.get("error") of a result mapping
Failed(r) ==
    /\ "error" \in DOMAIN r.result
    /\ r.result.error.fmt # ""

\* run_action, lines 150-163
Message(results) ==
    IF Len(results) = 1
    THEN Text(IF Failed(results[1]) THEN "{actor} {act} failed for {ident}."
              ELSE "{actor} {act} submitted successfully for {ident}.",
              <<IF Title(results[1].principal_type) # <<>>
                THEN Title(results[1].principal_type) ELSE <<"O","p","e","r","a","t","i","o","n">>,
                results[1].action,
                IF results[1].identifier # <<>> THEN results[1].identifier ELSE <<"r","e","q","u","e","s","t">>>>)
    ELSE IF \E i \in DOMAIN results : Failed(results[i])
    THEN Text("Processed {total} records: {total - failures} succeeded, {failures} failed.",
              <<Len(results),
                Cardinality({i \in DOMAIN results : ~Failed(results[i])}),
                Cardinality({i \in DOMAIN results : Failed(results[i])})>>)
    ELSE Text("Processed {total} records successfully.", <<Len(results)>>)

\* run_action, line 165
run_action_rendered(w, results) ==
    Return(w, [results |-> results, message |-> Message(results)])

\* run_action, lines 115-117: the loop over the rows of the file
RECURSIVE run_action_rows(_, _, _, _)

\* the loop body with an index that does not advance
run_action_row_same_index(r, rows, ix, results) ==
    IF r.exc # "" THEN r
    ELSE run_action_rows(r.w, Tail(rows), ix, Append(results, r.val))

\* the loop body, r being what process_row did with the head
run_action_row(r, rows, ix, results) ==
    IF r.exc # "" THEN r
    ELSE run_action_rows(r.w, Tail(rows), ix + 1, Append(results, r.val))

run_action_rows(w, rows, ix, results) ==
    IF rows = <<>> THEN run_action_rendered(w, results)
    ELSE run_action_row(
             process_row([w EXCEPT !.ctx = set_audit_context(@,
                              [row_id |-> <<ix>>, request_payload |-> <<Head(rows)>>])],
                         ix, Head(rows)),
             rows, ix, results)

FormKeys ==
    {"admin", "action", "principal_type", "user_email", "first_name", "last_name",
     "group_members", "domain", "bu", "other_type", "role", "appName", "env"}

\* run_action, lines 122-136: request.form.get(key, "") for the keys of the row
FormRow(form) == [k \in FormKeys |-> Get(form, k, <<>>)]

\* run_action, lines 119-141: process_row(0, row) ended as r
run_action_form_row(r) ==
    IF r.exc # "" THEN r ELSE run_action_rendered(r.w, <<r.val>>)

\* run_action, lines 119-141: the manual entry form
run_action_form(w, row) ==
    run_action_form_row(
        process_row([w EXCEPT !.ctx = set_audit_context(@,
                         [admin |-> <<Field(row, "admin")>>, file_path |-> <<NoStr>>,
                          row_id |-> <<0>>, request_payload |-> <<row>>])],
                    0, row))

\* run_action, lines 95-119: the context of the run is set, then the rows of
\* the uploaded file, if one is there, or else the form are processed
run_action_context(w, request) ==
    IF request.file # <<>>
    THEN run_action_rows([w EXCEPT !.ctx = set_audit_context(@,
                              [file_path |-> <<request.file[1].filename>>])],
                         request.file[1].rows, 0, <<>>)
    ELSE run_action_form(w, FormRow(request.form))

\* run_action(): one POST request to /run
run_action(w, request, nonce) ==
    run_action_context(
        [w EXCEPT !.ctx = set_audit_context(clear_audit_context(@),
                              [run_id |-> <<RunId("sync", w.clock, nonce)>>,
                               run_by |-> <<NoStr>>])],
        request)

(***************************************************************************)
(* Specification of one _safe_request call over every behaviour of the     *)
(* token endpoint and of the HTTP layer.                                   *)
(***************************************************************************)
Methods == {"GET", "POST"}
Urls == {UrlOf("Users", NoStr)}
StatusCodes == {200, 201, 202, 204, 404}
SomeBody == [id |-> "r1"]
GivenHeaders == <<"Bearer", "static">>

HttpBehs ==
    {HttpExc} \cup {HttpResp(c, js, "raw") : c \in StatusCodes, js \in {<<>>, <<SomeBody>>}}

TokBehs == {TokOk("t2", 3600), TokConnFail, TokHttpErr, TokNoToken}

\* what the token endpoint and the HTTP layer do during one loop iteration
AttemptBehs ==
    {[tok |-> TokOk("t2", 3600), http |-> h] : h \in HttpBehs}
    \cup {[tok |-> t, http |-> HttpResp(200, <<SomeBody>>, "raw")] : t \in TokBehs}

TokenCaches ==
    {TokenCacheInit, [token |-> "t1", expires_at |-> 5000], [token |-> "t1", expires_at |-> 50]}

Idle == [ret |-> "idle"]

\* a workspace without clusters, warehouses and cluster policies
NoWorkspace == [clusters |-> {}, warehouses |-> {}, policies |-> {}]

DirInit ==
    /\ users = {}
    /\ groups = {}
    /\ next_id = 1
    /\ audit = <<>>
    /\ last = Idle
    /\ calls = 0
    /\ faults = 0
    /\ audit_context = NoContext
    /\ store = FileStore
    /\ threads = NoThreads
    /\ workspace = NoWorkspace

InitReq ==
    /\ token_cache \in TokenCaches
    /\ now = 100
    /\ req = Idle
    /\ DirInit

\* the state after a call that ended with r
SafeRequestReturned(method, url, retries, headers, att, r) ==
    /\ req' = [ret |-> r.ret, out |-> r.out, events |-> r.events,
               iterations |-> r.iterations, clock0 |-> now,
               method |-> method, url |-> url, retries |-> retries,
               headers |-> headers, att |-> att, cache0 |-> token_cache]
    /\ token_cache' = r.cache
    /\ now' = r.clock

\* One call of _safe_request(method, url, retries, headers).
SafeRequestCall ==
    /\ req = Idle
    /\ \E method \in Methods, url \in Urls, retries \in 0..MaxRetries,
          headers \in {NoHeaders, GivenHeaders} :
         \E att \in [1..retries -> AttemptBehs] :
            SafeRequestReturned(method, url, retries, headers, att,
                _safe_request(method, url, retries, headers, att, token_cache, now))
    /\ UNCHANGED <<users, groups, next_id, audit, last, calls, faults, audit_context,
                   workspace, store, threads>>

NextReq == SafeRequestCall

SpecReq == InitReq /\ [][NextReq]_vars

(***************************************************************************)
(* Specification of the handlers against a remote directory whose API      *)
(* calls answer honestly, fail with a server error or fail in transport.   *)
(***************************************************************************)
EmailA == <<"a">>
EmailB == <<"b">>
EmailC == <<"c">>

UserRows ==
    {[action |-> "CREATE_USER", user_email |-> e, first_name |-> n[1], last_name |-> n[2]] :
        e \in {<<" ", "A">>, EmailB, EmailC, <<" ">>},
        n \in {<<<<"F">>, <<"L">>>>}}
    \cup {[action |-> "CREATE_USER", user_email |-> EmailC]}

GroupRows ==
    {[action |-> a, env |-> env, bu |-> b[1], other_type |-> b[2], domain |-> <<>>,
      appName |-> <<"C">>, role |-> <<"r">>, group_members |-> m] :
        a \in {"CREATE_GROUP", "ADD_TO_GROUP"},
        env \in {<<"P">>},
        b \in {<<<<"F">>, <<>>>>, <<Others, <<"X">>>>, <<Others, <<" ">>>>},
        m \in {<<>>, <<"a">>, <<"A", ",", " ", "b">>, <<"a", ";", "c">>}}

\* the users and groups the remote directory may hold at the start
UserA == [id |-> IdOf(1), userName |-> EmailA, emails |-> {EmailA}]
UserB == [id |-> IdOf(2), userName |-> <<"b", "2">>, emails |-> {EmailB}]
GroupF == [id |-> IdOf(3), displayName |-> <<"p","r","o","d","_","T","M","F","_","C","_","r">>,
           members |-> {}]
\* the ids below FirstFreeId are those of the resources above
FirstFreeId == Cardinality({UserA, UserB, GroupF}) + 1

\* the behaviours of the remote over the API calls of one invocation, by
\* the number of calls that do not answer honestly
NumFaults(bs) == Cardinality({i \in DOMAIN bs : bs[i] # "honest"})

Oracles ==
    [n \in 0..MaxFaults |-> {bs \in [1..MaxApiCalls -> CallBehs] : NumFaults(bs) <= n}]

World(bs) ==
    [users |-> users, groups |-> groups, next_id |-> next_id, reqs |-> <<>>,
     audit |-> audit, cache |-> token_cache, clock |-> now, bs |-> bs, k |-> 1,
     ctx |-> audit_context, store |-> store, clusters |-> workspace.clusters,
     warehouses |-> workspace.warehouses, policies |-> workspace.policies]

\* the state after a handler invocation with result r; every call that did
\* not answer honestly is one the handler made
Invoked(r, row) ==
    /\ \A i \in DOMAIN r.w.bs : r.w.bs[i] # "honest" => i < r.w.k
    /\ users' = r.w.users
    /\ groups' = r.w.groups
    /\ next_id' = r.w.next_id
    /\ audit' = r.w.audit
    /\ token_cache' = r.w.cache
    /\ now' = r.w.clock
    /\ calls' = calls + 1
    /\ faults' = faults + NumFaults(r.w.bs)
    /\ audit_context' = r.w.ctx
    /\ workspace' = [clusters |-> r.w.clusters, warehouses |-> r.w.warehouses,
                     policies |-> r.w.policies]
    /\ last' = [ret |-> "done", action |-> row.action, row |-> row,
                exc |-> r.exc, msg |-> r.msg, val |-> r.val, reqs |-> r.w.reqs,
                users0 |-> users, groups0 |-> groups, next_id0 |-> next_id,
                workspace0 |-> workspace,
                audit0 |-> Len(audit),
                prev |-> IF last = Idle THEN Idle ELSE [last EXCEPT !.prev = Idle]]
    /\ store' = r.w.store
    /\ UNCHANGED <<req, threads>>

InitUser ==
    /\ token_cache = TokenCacheInit
    /\ now = 100
    /\ req = Idle
    /\ users \in SUBSET {UserA, UserB}
    /\ groups = {}
    /\ next_id = FirstFreeId
    /\ audit = <<>>
    /\ last = Idle
    /\ calls = 0
    /\ faults = 0
    /\ audit_context = NoContext
    /\ store = FileStore
    /\ threads = NoThreads
    /\ workspace = NoWorkspace

\* process_row dispatches a CREATE_USER row to create_user_handler
CreateUser ==
    /\ calls < MaxCalls
    /\ \E row \in UserRows, bs \in Oracles[MaxFaults - faults] :
          Invoked(create_user_handler(World(bs), row), row)

NextUser == CreateUser

SpecUser == InitUser /\ [][NextUser]_vars

InitGroup ==
    /\ token_cache = TokenCacheInit
    /\ now = 100
    /\ req = Idle
    /\ users \in SUBSET {UserA, UserB}
    /\ groups \in SUBSET {GroupF}
    /\ next_id = FirstFreeId
    /\ audit = <<>>
    /\ last = Idle
    /\ calls = 0
    /\ faults = 0
    /\ audit_context = NoContext
    /\ store = FileStore
    /\ threads = NoThreads
    /\ workspace = NoWorkspace

\* process_row dispatches a CREATE_GROUP row to create_group_handler
CreateGroup ==
    /\ last = Idle
    /\ \E row \in {r \in GroupRows : r.action = "CREATE_GROUP"}, bs \in Oracles[MaxFaults] :
          Invoked(create_group_handler(World(bs), row), row)

\* process_row dispatches an ADD_TO_GROUP row to add_members_to_group_handler
AddToGroup ==
    /\ last = Idle
    /\ \E row \in {r \in GroupRows : r.action = "ADD_TO_GROUP"}, bs \in Oracles[MaxFaults] :
          Invoked(add_members_to_group_handler(World(bs), row), row)

NextGroup == CreateGroup \/ AddToGroup

SpecGroup == InitGroup /\ [][NextGroup]_vars

\* REMOVE_FROM_GROUP rows naming the group of GroupF
RemoveRows ==
    {[action |-> "REMOVE_FROM_GROUP", env |-> <<"P">>, bu |-> b[1], other_type |-> b[2],
      domain |-> <<>>, appName |-> <<"C">>, role |-> <<"r">>, group_members |-> m] :
        b \in {<<<<"F">>, <<>>>>, <<Others, <<" ">>>>},
        m \in {<<>>, <<"a">>, <<"c">>, <<"a", ",", "c", ",", "b">>}}

\* GroupF with the users UserA and UserB as members
GroupFM == [GroupF EXCEPT !.members = {UserA.id, UserB.id}]

InitRemove ==
    /\ token_cache = TokenCacheInit
    /\ now = 100
    /\ req = Idle
    /\ users \in {{UserA, UserB}, {UserA}}
    /\ groups \in {{}, {GroupFM}}
    /\ next_id = FirstFreeId
    /\ audit = <<>>
    /\ last = Idle
    /\ calls = 0
    /\ faults = 0
    /\ audit_context = NoContext
    /\ store = FileStore
    /\ threads = NoThreads
    /\ workspace = NoWorkspace

\* process_row dispatches a REMOVE_FROM_GROUP row to
\* remove_members_from_group_handler
RemoveFromGroup ==
    /\ last = Idle
    /\ \E row \in RemoveRows, bs \in Oracles[MaxFaults] :
          Invoked(remove_members_from_group_handler(World(bs), row), row)

NextRemove == RemoveFromGroup

SpecRemove == InitRemove /\ [][NextRemove]_vars

(***************************************************************************)
(* Specification of the cluster and SQL warehouse operations called        *)
(* repeatedly against one workspace.                                       *)
(***************************************************************************)
AppA == <<"A">>
AppB == <<"B">>

\* the resources the workspace may hold at the start
PolicyU == [name |-> PolicyName, policy_id |-> <<"pol1">>]
ClusterA == [cluster_id |-> IdOf(FirstFreeId), cluster_name |-> AppA,
             autoscale |-> [min_workers |-> 1, max_workers |-> 2],
             custom_tags |-> EmptyDict, policy_id |-> PolicyU.policy_id]
WarehouseA == [id |-> IdOf(FirstFreeId + 1), name |-> WarehouseName(AppA),
               tags |-> [custom_tags |-> <<>>]]
\* the ids below FirstFreeComputeId are those of the resources above
FirstFreeComputeId == FirstFreeId + Cardinality({ClusterA, WarehouseA})

TagsOf(application_name) ==
    [application_name |-> application_name, environment |-> <<"d", "e", "v">>,
     cost_center |-> <<"c", "c">>, department |-> <<>>, business_owner |-> <<>>]

ComputeCalls ==
    {[action |-> a, application_name |-> n, base_workers |-> b, sql_wh_size |-> <<"S">>] :
        a \in {"create_all_purpose_cluster", "create_sql_warehouse"},
        n \in {AppA, AppB},
        b \in {<<>>, <<"3">>, <<"0">>, <<"-", "3">>}}

InitCompute ==
    /\ token_cache = TokenCacheInit
    /\ now = 100
    /\ req = Idle
    /\ users = {}
    /\ groups = {}
    /\ next_id = FirstFreeComputeId
    /\ audit = <<>>
    /\ last = Idle
    /\ calls = 0
    /\ faults = 0
    /\ audit_context = NoContext
    /\ store = FileStore
    /\ threads = NoThreads
    /\ workspace \in {[clusters |-> c, warehouses |-> wh, policies |-> {PolicyU}] :
                         c \in SUBSET {ClusterA}, wh \in SUBSET {WarehouseA}}

\* a call create_all_purpose_cluster(application_name, policy_id, ...)
CreateAllPurposeCluster ==
    /\ calls < MaxCalls
    /\ \E c \in {x \in ComputeCalls : x.action = "create_all_purpose_cluster"},
          bs \in Oracles[MaxFaults - faults] :
          Invoked(create_all_purpose_cluster(World(bs), c.application_name,
                                             PolicyU.policy_id, <<"n">>, c.base_workers,
                                             <<"d", "e", "v">>, TagsOf(c.application_name)),
                  c)

\* a call create_sql_warehouse(application_name, sql_wh_size, project_tags)
CreateSqlWarehouse ==
    /\ calls < MaxCalls
    /\ \E c \in {x \in ComputeCalls : x.action = "create_sql_warehouse"},
          bs \in Oracles[MaxFaults - faults] :
          Invoked(create_sql_warehouse(World(bs), c.application_name, c.sql_wh_size,
                                       TagsOf(c.application_name)),
                  c)

NextCompute == CreateAllPurposeCluster \/ CreateSqlWarehouse

SpecCompute == InitCompute /\ [][NextCompute]_vars

(***************************************************************************)
(* Specification of construct_group_name applied to one row.               *)
(***************************************************************************)
NameRow(env, bu, other_type, domain, appName, role) ==
    [env |-> env, bu |-> bu, other_type |-> other_type, domain |-> domain,
     appName |-> appName, role |-> role]

\* the rows of the two examples of the naming contract
ExampleRowFinance ==
    NameRow(<<"P", "r", "o", "d", "u", "c", "t", "i", "o", "n">>, <<"F", "i", "n", "a", "n", "c", "e">>, <<>>, <<"S", "a", "l", "e", "s">>, <<"C", "o", "P", "i", "l", "o", "t">>, <<"a", "d", "m", "i", "n", "s">>)
ExampleRowOthers ==
    NameRow(<<"d", "e", "v">>, Others, <<"X">>, <<>>, <<"A", "p", "p", "1">>, <<"r", "e", "a", "d", "e", "r", "s">>)

NameRows ==
    {NameRow(env, bu, ot, dom, app, role) :
        env \in {<<"p", "r", "o", "d">>, <<" ", "P", "R", "D", " ">>, <<"P">>, <<"p", "r", "o", "d", "u", "c", "t", "i", "o", "n">>, <<"d", "e", "v">>, <<"p", "r">>, <<>>},
        bu \in {<<"F">>, Others, <<" ">> \o Others \o <<" ">>, Lower(Others), <<>>},
        ot \in {<<"X">>, <<" ">>, <<>>},
        dom \in {<<"S">>, <<" ">>, <<>>},
        app \in {<<"C">>, <<>>},
        role \in {<<"r">>, <<>>}}
    \cup {ExampleRowFinance, ExampleRowOthers}

InitName ==
    /\ token_cache = TokenCacheInit
    /\ now = 100
    /\ req = Idle
    /\ users = {}
    /\ groups = {}
    /\ next_id = 1
    /\ audit = <<>>
    /\ last \in {[ret |-> "input", action |-> "construct_group_name", row |-> r] :
                    r \in NameRows}
    /\ calls = 0
    /\ faults = 0
    /\ audit_context = NoContext
    /\ store = FileStore
    /\ threads = NoThreads
    /\ workspace = NoWorkspace

\* the state after construct_group_name(row) ended as gn
GroupNameConstructed(gn) ==
    /\ last' = [ret |-> "done", action |-> "construct_group_name", row |-> last.row,
                exc |-> gn.exc, msg |-> gn.msg, val |-> gn.name]
    /\ calls' = calls + 1
    /\ UNCHANGED <<token_cache, now, req, users, groups, next_id, audit, faults,
                   audit_context, workspace, store, threads>>

\* one call construct_group_name(row)
ConstructGroupName ==
    /\ last.ret = "input"
    /\ GroupNameConstructed(construct_group_name(last.row))

NextName == ConstructGroupName

SpecName == InitName /\ [][NextName]_vars

(***************************************************************************)
(* Specification of one project onboarding request.                        *)
(***************************************************************************)
RunNonces == {1, 2}

OnboardForms ==
    {[action |-> "ONBOARD_PROJECT", cluster_type |-> ct, application_name |-> n,
      base_workers |-> b, sql_wh_size |-> <<"S">>, node_type_id |-> <<"n">>,
      environment |-> <<"d", "e", "v">>, cost_center |-> <<"c", "c">>,
      department |-> <<>>, business_owner |-> <<>>] :
        ct \in {AllPurpose, <<" ", "J", "o", "b">>, <<"w", "i", "d", "g", "e", "t">>, <<>>},
        n \in {AppA, AppB, <<>>},
        b \in {<<>>, <<"3">>, <<"x">>}}

InitOnboard ==
    /\ token_cache = TokenCacheInit
    /\ now = 100
    /\ req = Idle
    /\ users = {}
    /\ groups = {}
    /\ next_id = FirstFreeComputeId
    /\ audit = <<>>
    /\ last = Idle
    /\ calls = 0
    /\ faults = 0
    /\ audit_context = NoContext
    /\ store = FileStore
    /\ threads = NoThreads
    /\ workspace \in {[clusters |-> {}, warehouses |-> wh, policies |-> p] :
                         wh \in SUBSET {WarehouseA}, p \in SUBSET {PolicyU}}

\* one POST request to /project-onboard
OnboardProject ==
    /\ last = Idle
    /\ \E form \in OnboardForms, nonce \in RunNonces, bs \in Oracles[MaxFaults] :
          Invoked(onboard_project(World(bs), form, nonce), form)

NextOnboard == OnboardProject

SpecOnboard == InitOnboard /\ [][NextOnboard]_vars

(***************************************************************************)
(* Specification of one POST request to /run, with a form or with a file.  *)
(***************************************************************************)
ONBOARD_PROJECT == <<"O","N","B","O","A","R","D","_","P","R","O","J","E","C","T">>

UserForms ==
    {[action |-> a, principal_type |-> <<"u","s","e","r">>, user_email |-> e,
      first_name |-> f] :
        a \in {CREATE_USER, <<" ">> \o Lower(DELETE_USER), UPDATE_USER},
        e \in {<<>>, EmailA, EmailC},
        f \in {<<>>, <<"F">>}}

GroupForms ==
    {[action |-> a, principal_type |-> <<"g","r","o","u","p">>, user_email |-> e,
      admin |-> <<"m">>, env |-> <<"P">>, bu |-> b[1], other_type |-> b[2],
      appName |-> <<"C">>, role |-> <<"r">>, group_members |-> m] :
        a \in {CREATE_GROUP, ADD_TO_GROUP, REMOVE_FROM_GROUP, Lower(CREATE_GROUP)},
        e \in {<<>>, EmailA},
        b \in {<<<<"F">>, <<>>>>, <<Others, <<" ">>>>},
        m \in {<<>>, <<"a">>, <<"a", ",", "c">>}}

OtherForms ==
    {[action |-> a, application_name |-> AppA, cluster_type |-> Job] :
        a \in {ONBOARD_PROJECT, <<>>, <<"F","O","O">>}}

Forms == UserForms \cup GroupForms \cup OtherForms

\* rows of an uploaded file, after fillna("")
FileRows ==
    {[action |-> CREATE_USER, user_email |-> EmailC, first_name |-> <<>>],
     [action |-> UPDATE_USER, user_email |-> EmailA, attributes_json |-> <<"x">>],
     [action |-> UPDATE_USER, user_email |-> EmailA, attributes_json |-> <<"{", "}">>],
     [action |-> CREATE_GROUP, user_email |-> <<>>, env |-> <<"P">>, bu |-> Others,
      other_type |-> <<>>, appName |-> <<"C">>, role |-> <<"r">>, group_members |-> <<>>],
     [action |-> REMOVE_FROM_GROUP, user_email |-> <<>>, env |-> <<"P">>, bu |-> <<"F">>,
      other_type |-> <<>>, appName |-> <<"C">>, role |-> <<"r">>,
      group_members |-> <<"a">>],
     [action |-> <<"F","O","O">>, user_email |-> <<>>]}

Files == {[filename |-> <<"f", ".", "c", "s", "v">>, rows |-> <<r1, r2>>] :
             r1 \in FileRows, r2 \in FileRows}

InitRow ==
    /\ token_cache = TokenCacheInit
    /\ now = 100
    /\ req = Idle
    /\ users \in {{UserA, UserB}, {UserA}}
    /\ groups \in {{}, {GroupFM}}
    /\ next_id = FirstFreeId
    /\ audit = <<>>
    /\ last = Idle
    /\ calls = 0
    /\ faults = 0
    /\ audit_context = NoContext
    /\ store = FileStore
    /\ threads = NoThreads
    /\ workspace = NoWorkspace

\* one POST request to /run with the manual entry form
RunForm ==
    /\ last = Idle
    /\ \E form \in Forms, nonce \in RunNonces, bs \in Oracles[MaxFaults] :
          Invoked(run_action(World(bs), [file |-> <<>>, form |-> form], nonce),
                  [action |-> "RUN_FORM", rows |-> <<FormRow(form)>>])

\* one POST request to /run with an uploaded file
RunFile ==
    /\ last = Idle
    /\ \E file \in Files, nonce \in RunNonces, bs \in Oracles[MaxFaults] :
          Invoked(run_action(World(bs), [file |-> <<file>>, form |-> EmptyDict], nonce),
                  [action |-> "RUN_FILE", rows |-> file.rows])

NextRow == RunForm \/ RunFile

SpecRow == InitRow /\ [][NextRow]_vars

(***************************************************************************)
(* Specification of the audit context and append_audit, called in any      *)
(* order.                                                                  *)
(***************************************************************************)
\* keyword arguments of set_audit_context; run_by is not a context key
ContextKwargs ==
    {[run_id |-> <<RunId("sync", 100, 1)>>, run_by |-> <<<<"m">>>>],
     [admin |-> <<<<"m">>>>, file_path |-> <<NoStr>>, row_id |-> <<0>>,
      request_payload |-> <<[action |-> CREATE_USER]>>],
     [file_path |-> <<<<"f">>>>],
     [row_id |-> <<12>>, request_payload |-> <<[action |-> DELETE_USER]>>],
     [response_code |-> <<500>>, response_body |-> <<[detail |-> "ctx"]>>],
     [admin |-> <<>>, row_id |-> <<>>]}

InitAudit ==
    /\ token_cache = TokenCacheInit
    /\ now = 100
    /\ req = Idle
    /\ users = {}
    /\ groups = {}
    /\ next_id = FirstFreeId
    /\ audit = <<>>
    /\ last = Idle
    /\ calls = 0
    /\ faults = 0
    /\ audit_context = NoContext
    /\ store = FileStore
    /\ threads = NoThreads
    /\ workspace = NoWorkspace

\* set_audit_context(**kwargs)
SetAuditContext ==
    /\ calls < MaxCalls + 1
    /\ \E kwargs \in ContextKwargs :
          /\ audit_context' = set_audit_context(audit_context, kwargs)
          /\ last' = [ret |-> "done", action |-> "set_audit_context", row |-> kwargs,
                      ctx0 |-> audit_context]
    /\ calls' = calls + 1
    /\ UNCHANGED <<token_cache, now, req, users, groups, next_id, audit, faults, workspace, store, threads>>

\* clear_audit_context()
ClearAuditContext ==
    /\ calls < MaxCalls + 1
    /\ audit_context' = clear_audit_context(audit_context)
    /\ last' = [ret |-> "done", action |-> "clear_audit_context", row |-> EmptyDict,
                ctx0 |-> audit_context]
    /\ calls' = calls + 1
    /\ UNCHANGED <<token_cache, now, req, users, groups, next_id, audit, faults, workspace, store, threads>>

\* append_audit(action, principal, identifier, status, details, response_code,
\*              response_body, request_payload)
AppendAudit ==
    /\ calls < MaxCalls + 1
    /\ \E status \in {"SUCCESS", "FAILED"},
          response_code \in {NoCode, <<200>>},
          response_body \in {NoBody, <<[id |-> IdOf(1)]>>},
          request_payload \in {NoPayload, <<[userName |-> EmailA]>>} :
          /\ audit' = append_audit(World(<<>>), "CREATE_USER", "user", EmailA, status,
                                   Text("details", <<>>), response_code, response_body,
                                   request_payload).audit
          /\ last' = [ret |-> "done", action |-> "append_audit",
                      row |-> [status |-> status, response_code |-> response_code,
                               response_body |-> response_body,
                               request_payload |-> request_payload],
                      ctx0 |-> audit_context]
    /\ calls' = calls + 1
    /\ UNCHANGED <<token_cache, now, req, users, groups, next_id, faults, workspace,
                   audit_context, store, threads>>

NextAudit == SetAuditContext \/ ClearAuditContext \/ AppendAudit

SpecAudit == InitAudit /\ [][NextAudit]_vars

(***************************************************************************)
(* Specification of the audit trail over its two backends, each call made  *)
(* under some health of the backends.                                      *)
(***************************************************************************)
MaxLimit == 2

\* the seconds the clock advances while the token callers run
MaxTicks == 2

\* what may fail during one append_audit call: the connection, one of the
\* statements, the file
WriteHealths ==
    {[connect |-> failing # "connect", create |-> failing # "create",
      grant |-> failing # "grant", insert |-> failing # "insert",
      select |-> TRUE, file_write |-> fw, file_read |-> TRUE] :
        failing \in {"none", "connect", "create", "grant", "insert"}, fw \in BOOLEAN}

\* what may fail during one read_audit call
ReadHealths ==
    {[connect |-> failing # "connect", create |-> TRUE, grant |-> TRUE, insert |-> TRUE,
      select |-> failing # "select", file_write |-> TRUE, file_read |-> fr] :
        failing \in {"none", "connect", "select"}, fr \in BOOLEAN}

WithHealth(s, h) ==
    [s EXCEPT !.connect = h.connect, !.create = h.create, !.grant = h.grant,
              !.insert = h.insert, !.select = h.select, !.file_write = h.file_write,
              !.file_read = h.file_read]

\* a record of an earlier run
StoredRow(ts, status) ==
    audit_row(NoContext, ts, "CREATE_USER", "user", EmailA, status, Text("details", <<>>),
              NoCode, NoBody, NoPayload)

\* filters of read_audit: None, {}, the columns the /audit route accepts, and
\* a key that is not a column
Filters ==
    {<<>>, <<EmptyDict>>, <<[status |-> "SUCCESS"]>>,
     <<[action |-> "CREATE_USER", status |-> "FAILED"]>>,
     <<[action |-> "DELETE_USER"]>>, <<[principal_type |-> "user", owner |-> "x"]>>}

InitStore ==
    /\ token_cache = TokenCacheInit
    /\ now = 100
    /\ req = Idle
    /\ users = {}
    /\ groups = {}
    /\ next_id = FirstFreeId
    /\ audit \in {<<>>, <<StoredRow(99, "SUCCESS"), StoredRow(98, "FAILED"),
                          StoredRow(99, "SUCCESS")>>}
    /\ last = Idle
    /\ calls = 0
    /\ faults = 0
    /\ audit_context = NoContext
    /\ workspace = NoWorkspace
    /\ store \in {[FileStore EXCEPT !.mode = m, !.env = e] :
                     m \in {"delta", "file"}, e \in BOOLEAN}
    /\ threads = NoThreads

\* the state after append_audit returned the world w
StoreAppended(w, status) ==
    /\ audit' = w.audit
    /\ store' = w.store
    /\ now' = w.clock
    /\ last' = [ret |-> "done", action |-> "append_audit",
                row |-> audit_row(audit_context, w.clock, "UPDATE_USER", "user", EmailB,
                                  status, Text("details", <<>>), <<200>>, NoBody, NoPayload),
                store0 |-> w.store, audit0 |-> audit, delta0 |-> store.delta]

\* append_audit("UPDATE_USER", "user", email, status, details, 200), a tick
\* after the call before it or in the same tick
StoreAppend ==
    /\ calls < MaxCalls
    /\ \E h \in WriteHealths, status \in {"SUCCESS", "FAILED"}, tick \in {0, 1} :
          StoreAppended(
              append_audit([World(<<>>) EXCEPT !.store = WithHealth(store, h),
                                               !.clock = now + tick],
                           "UPDATE_USER", "user", EmailB, status, Text("details", <<>>),
                           <<200>>, NoBody, NoPayload),
              status)
    /\ calls' = calls + 1
    /\ UNCHANGED <<token_cache, req, users, groups, next_id, faults, audit_context,
                   workspace, threads>>

NextStore == StoreAppend

SpecStore == InitStore /\ [][NextStore]_vars

(***************************************************************************)
(* Specification of read_audit over audit trails that earlier runs left.   *)
(***************************************************************************)
InitRead ==
    /\ token_cache = TokenCacheInit
    /\ now = 100
    /\ req = Idle
    /\ users = {}
    /\ groups = {}
    /\ next_id = FirstFreeId
    /\ audit \in {<<>>,
                  <<StoredRow(98, "FAILED")>>,
                  <<StoredRow(99, "SUCCESS"), StoredRow(98, "FAILED"),
                    StoredRow(100, "SUCCESS"), StoredRow(99, "SUCCESS")>>}
    /\ last = Idle
    /\ calls = 0
    /\ faults = 0
    /\ audit_context = NoContext
    /\ workspace = NoWorkspace
    /\ store \in {[FileStore EXCEPT !.mode = m, !.env = e, !.delta = d] :
                     m \in {"delta", "file"}, e \in BOOLEAN,
                     d \in {<<>>,
                            <<StoredRow(97, "SUCCESS"), StoredRow(99, "FAILED"),
                              StoredRow(98, "SUCCESS")>>}}
    /\ threads = NoThreads

\* read_audit(limit, filters)
ReadAudit ==
    /\ calls < MaxCalls
    /\ \E h \in ReadHealths, limit \in 0..MaxLimit, filters \in Filters :
          /\ store' = WithHealth(store, h)
          /\ last' = [ret |-> "done", action |-> "read_audit", limit |-> limit,
                      filters |-> filters,
                      val |-> read_audit(WithHealth(store, h), audit, limit, filters)]
    /\ calls' = calls + 1
    /\ UNCHANGED <<token_cache, now, req, users, groups, next_id, audit, faults,
                   audit_context, workspace, threads>>

NextRead == ReadAudit

SpecRead == InitRead /\ [][NextRead]_vars

(***************************************************************************)
(* Specification of two requests served concurrently by the threads of the *)
(* Flask server (app.run, line 1806).  A thread is at one of the           *)
(* statements of its route that touch the audit context; the dispatch of   *)
(* a row is one step.                                                      *)
(***************************************************************************)
\* a request being served: the route, the rows (the form for a route with a
\* form), the row being processed and the run_id the route generated
Serving(kind, rows) ==
    [kind |-> kind, rows |-> rows, pc |-> "start", ix |-> 0, run_id |-> <<>>,
     results |-> <<>>]

ConcurrentRequests ==
    {<<Serving("form", <<FormRow([action |-> CREATE_USER, user_email |-> EmailA])>>),
       Serving("form", <<FormRow([action |-> CREATE_USER, user_email |-> EmailC])>>)>>,
     <<Serving("form", <<FormRow([action |-> DELETE_USER, user_email |-> EmailA])>>),
       Serving("onboard", <<[application_name |-> AppB, cluster_type |-> Job,
                             sql_wh_size |-> <<"S">>, environment |-> <<"d","e","v">>]>>)>>,
     <<Serving("file", <<[action |-> CREATE_USER, user_email |-> EmailA],
                         [action |-> UPDATE_USER, user_email |-> EmailB,
                          first_name |-> <<"F">>]>>),
       Serving("form", <<FormRow([action |-> CREATE_USER, user_email |-> EmailC])>>)>>}

InitConc ==
    /\ token_cache = TokenCacheInit
    /\ now = 100
    /\ req = Idle
    /\ users = {UserA, UserB}
    /\ groups = {}
    /\ next_id = FirstFreeComputeId
    /\ audit = <<>>
    /\ last = Idle
    /\ calls = 0
    /\ faults = 0
    /\ audit_context = NoContext
    /\ workspace = NoWorkspace
    /\ store = FileStore
    /\ threads \in ConcurrentRequests

\* run_action line 95, onboard_project line 218: clear_audit_context()
ThreadClear(t) ==
    /\ threads[t].pc = "start"
    /\ audit_context' = clear_audit_context(audit_context)
    /\ threads' = [threads EXCEPT ![t].pc = "cleared"]
    /\ UNCHANGED <<token_cache, now, req, users, groups, next_id, audit, last, calls,
                   faults, workspace, store>>

\* run_action lines 97-103, onboard_project lines 219-222: the run_id is made
\* and set
ThreadSetRun(t) ==
    /\ threads[t].pc = "cleared"
    /\ audit_context' =
          set_audit_context(audit_context,
              [run_id |-> <<RunId(IF threads[t].kind = "onboard" THEN "onboard" ELSE "sync",
                                  now, t)>>,
               run_by |-> <<NoStr>>])
    /\ threads' = [threads EXCEPT ![t].pc = "run_set",
                                  ![t].run_id =
                                      RunId(IF threads[t].kind = "onboard" THEN "onboard"
                                            ELSE "sync", now, t)]
    /\ UNCHANGED <<token_cache, now, req, users, groups, next_id, audit, last, calls,
                   faults, workspace, store>>

\* run_action line 109: set_audit_context(file_path=f.filename)
ThreadSetFile(t) ==
    /\ threads[t].kind = "file"
    /\ threads[t].pc = "run_set"
    /\ audit_context' = set_audit_context(audit_context, [file_path |-> <<<<"f">>>>])
    /\ threads' = [threads EXCEPT ![t].pc = "file_set"]
    /\ UNCHANGED <<token_cache, now, req, users, groups, next_id, audit, last, calls,
                   faults, workspace, store>>

\* run_action line 116 and lines 137-139, onboard_project line 240: the
\* context of the row is set
ThreadSetRow(t) ==
    /\ \/ threads[t].kind = "file" /\ threads[t].pc = "file_set"
       \/ threads[t].kind # "file" /\ threads[t].pc = "run_set"
    /\ audit_context' =
          set_audit_context(audit_context,
              IF threads[t].kind = "form"
              THEN [admin |-> <<Field(threads[t].rows[1], "admin")>>,
                    file_path |-> <<NoStr>>, row_id |-> <<0>>,
                    request_payload |-> <<threads[t].rows[1]>>]
              ELSE [row_id |-> <<threads[t].ix>>,
                    request_payload |-> <<threads[t].rows[threads[t].ix + 1]>>])
    /\ threads' = [threads EXCEPT ![t].pc = "row_set"]
    /\ UNCHANGED <<token_cache, now, req, users, groups, next_id, audit, last, calls,
                   faults, workspace, store>>

\* the state after the dispatch of thread t ended as r
ThreadDispatched(t, r) ==
    /\ users' = r.w.users
    /\ groups' = r.w.groups
    /\ next_id' = r.w.next_id
    /\ audit' = r.w.audit
    /\ token_cache' = r.w.cache
    /\ now' = r.w.clock
    /\ audit_context' = r.w.ctx
    /\ store' = r.w.store
    /\ workspace' = [clusters |-> r.w.clusters, warehouses |-> r.w.warehouses,
                     policies |-> r.w.policies]
    /\ threads' = [threads EXCEPT
                      ![t].pc = IF threads[t].kind = "file" /\ r.exc = ""
                                   /\ threads[t].ix + 1 < Len(threads[t].rows)
                                THEN "file_set" ELSE "done",
                      ![t].ix = IF threads[t].kind = "file" /\ r.exc = ""
                                   /\ threads[t].ix + 1 < Len(threads[t].rows)
                                THEN @ + 1 ELSE @,
                      ![t].results = Append(@, [exc |-> r.exc, val |-> r.val])]
    /\ UNCHANGED <<req, last, calls, faults>>

\* run_action lines 117 and 140: process_row(ix, row); onboard_project lines
\* 242-262: the handler and the except block of the route
ThreadDispatch(t) ==
    /\ threads[t].pc = "row_set"
    /\ ThreadDispatched(t,
          IF threads[t].kind = "onboard"
          THEN onboard_handled(onboard_project_handler(World(<<>>), threads[t].rows[1]),
                               IF Field(threads[t].rows[1], "application_name") # <<>>
                               THEN Field(threads[t].rows[1], "application_name")
                               ELSE <<"u","n","k","n","o","w","n","_","p","r","o","j","e","c","t">>)
          ELSE process_row(World(<<>>), threads[t].ix, threads[t].rows[threads[t].ix + 1]))

NextConc ==
    \E t \in DOMAIN threads :
        \/ ThreadClear(t)
        \/ ThreadSetRun(t)
        \/ ThreadSetFile(t)
        \/ ThreadSetRow(t)
        \/ ThreadDispatch(t)

SpecConc == InitConc /\ [][NextConc]_vars

(***************************************************************************)
(* Specification of get_dbx_access_token called by the threads of the      *)
(* server at once.  _token_cache is a module global without a lock; a      *)
(* caller is at one of the statements of lines 23-46 that read or write    *)
(* it, and the clock advances between any two of them.                     *)
(***************************************************************************)
\* a caller: its position, the token_data of its POST, the number of its
\* POSTs, the (token, expires_at) pairs it computed at lines 43-44, the
\* value of its last time.time() and the token it returned last
Caller ==
    [pc |-> "idle", token_data |-> <<>>, posts |-> 0, fetched |-> <<>>,
     ret |-> NoToken, read_at |-> 0]

\* the access tokens the endpoint issues, in the order of issue
IssuedTokens == <<"t2", "t3", "t4", "t5", "t6", "t7">>

\* the number of tokens issued so far
Issued == threads[1].posts + threads[2].posts

\* the expires_in values of the token responses
Lifetimes == {61, 62}

InitToken ==
    /\ token_cache \in {TokenCacheInit, [token |-> "t1", expires_at |-> 101]}
    /\ now = 100
    /\ req = Idle
    /\ users = {}
    /\ groups = {}
    /\ next_id = 1
    /\ audit = <<>>
    /\ last = Idle
    /\ calls = 0
    /\ faults = 0
    /\ audit_context = NoContext
    /\ workspace = NoWorkspace
    /\ store = FileStore
    /\ threads = <<Caller, Caller>>

\* a thread calls get_dbx_access_token()
TokenCall(t) ==
    /\ threads[t].pc \in {"idle", "returned", "raised"}
    /\ calls < MaxCalls + 1
    /\ calls' = calls + 1
    /\ threads' = [threads EXCEPT ![t].pc = "check_token"]
    /\ UNCHANGED <<token_cache, now, req, users, groups, next_id, audit, last, faults,
                   audit_context, workspace, store>>

\* line 23, left operand: _token_cache["token"]
TokenCheck(t) ==
    /\ threads[t].pc = "check_token"
    /\ threads' = [threads EXCEPT ![t].pc = IF token_cache.token # NoToken
                                            THEN "check_expiry" ELSE "post"]
    /\ UNCHANGED <<token_cache, now, req, users, groups, next_id, audit, last, calls,
                   faults, audit_context, workspace, store>>

\* line 23, right operand: time.time() < _token_cache["expires_at"]
TokenCheckExpiry(t) ==
    /\ threads[t].pc = "check_expiry"
    /\ threads' = [threads EXCEPT ![t].pc = IF now < token_cache.expires_at
                                            THEN "return_cached" ELSE "post",
                                  ![t].read_at = now]
    /\ UNCHANGED <<token_cache, now, req, users, groups, next_id, audit, last, calls,
                   faults, audit_context, workspace, store>>

\* line 24: return _token_cache["token"]
TokenReturnCached(t) ==
    /\ threads[t].pc = "return_cached"
    /\ threads' = [threads EXCEPT ![t].pc = "returned", ![t].ret = token_cache.token]
    /\ UNCHANGED <<token_cache, now, req, users, groups, next_id, audit, last, calls,
                   faults, audit_context, workspace, store>>

\* lines 33-41: the POST to the token endpoint, raise_for_status and
\* resp.json()
TokenPost(t) ==
    /\ threads[t].pc = "post"
    /\ \E ep \in {TokOk(IssuedTokens[Issued + 1], ttl) : ttl \in Lifetimes} \cup {TokConnFail} :
          threads' = [threads EXCEPT
                         ![t].pc = IF ep.kind = "ok" THEN "write_token" ELSE "raised",
                         ![t].token_data = IF ep.kind = "ok" THEN <<ep>> ELSE <<>>,
                         ![t].posts = IF ep.kind = "ok" THEN @ + 1 ELSE @]
    /\ UNCHANGED <<token_cache, now, req, users, groups, next_id, audit, last, calls,
                   faults, audit_context, workspace, store>>

\* line 43: _token_cache["token"] = token_data["access_token"]
TokenWriteToken(t) ==
    /\ threads[t].pc = "write_token"
    /\ token_cache' = [token_cache EXCEPT !.token = threads[t].token_data[1].access_token]
    /\ threads' = [threads EXCEPT ![t].pc = "write_expiry"]
    /\ UNCHANGED <<now, req, users, groups, next_id, audit, last, calls, faults,
                   audit_context, workspace, store>>

\* line 44: _token_cache["expires_at"] = time.time() + token_data["expires_in"] - 60
TokenWriteExpiry(t) ==
    /\ threads[t].pc = "write_expiry"
    /\ token_cache' = [token_cache EXCEPT
                          !.expires_at = now + threads[t].token_data[1].expires_in - 60]
    /\ threads' = [threads EXCEPT
                      ![t].pc = "return_new",
                      ![t].read_at = now,
                      ![t].fetched =
                          Append(@, [token |-> threads[t].token_data[1].access_token,
                                     expires_at |-> now + threads[t].token_data[1].expires_in
                                                        - 60])]
    /\ UNCHANGED <<now, req, users, groups, next_id, audit, last, calls, faults,
                   audit_context, workspace, store>>

\* line 46: return _token_cache["token"]
TokenReturnNew(t) ==
    /\ threads[t].pc = "return_new"
    /\ threads' = [threads EXCEPT ![t].pc = "returned", ![t].ret = token_cache.token]
    /\ UNCHANGED <<token_cache, now, req, users, groups, next_id, audit, last, calls,
                   faults, audit_context, workspace, store>>

\* a second passes
Tick ==
    /\ now < 100 + MaxTicks
    /\ now' = now + 1
    /\ UNCHANGED <<token_cache, req, users, groups, next_id, audit, last, calls, faults,
                   audit_context, workspace, store, threads>>

NextToken ==
    \/ Tick
    \/ \E t \in DOMAIN threads :
          \/ TokenCall(t)
          \/ TokenCheck(t)
          \/ TokenCheckExpiry(t)
          \/ TokenReturnCached(t)
          \/ TokenPost(t)
          \/ TokenWriteToken(t)
          \/ TokenWriteExpiry(t)
          \/ TokenReturnNew(t)

SpecToken == InitToken /\ [][NextToken]_vars

(***************************************************************************)
(* Properties of _safe_request                                             *)
(***************************************************************************)
Returned == req # Idle

\* the request events of the trace, and the sleeps
Requests(evs) == SelectSeq(evs, LAMBDA e : e.ev = "request")
Sleeps(evs) == SelectSeq(evs, LAMBDA e : e.ev = "sleep")

\* iteration i obtained its headers without consulting a failing provider
HeadersOk(i) ==
    \/ req.headers # NoHeaders
    \/ req.att[i].tok.kind = "ok"

\* iteration i ended in a transport failure of the HTTP request
TransportFailure(i) == HeadersOk(i) /\ req.att[i].http.kind = "exc"

\* iteration i received an HTTP response with a status in S
Responded(i, S) ==
    /\ HeadersOk(i)
    /\ req.att[i].http.kind = "resp"
    /\ req.att[i].http.status_code \in S

\* C1: with maxAttempts >= 1, transport failures on attempts 1..k-1 followed
\* by a 200/201/204 response on attempt k return that success Outcome after
\* exactly k attempts; transport failures on all attempts return, after
\* exactly maxAttempts attempts, status_code 0 with an empty body and an
\* error string, without raising.
C1_RetryUntilSuccessOrExhaustion ==
    (Returned /\ req.retries >= 1) =>
       /\ \A k \in 1..req.retries :
            ((\A i \in 1..(k - 1) : TransportFailure(i)) /\ Responded(k, {200, 201, 204})) =>
               /\ req.ret = "Outcome"
               /\ req.out.status_code = req.att[k].http.status_code
               /\ "error" \notin DOMAIN req.out
               /\ req.out.body = IF req.att[k].http.status_code # 204 /\ req.att[k].http.json # <<>>
                                 THEN req.att[k].http.json[1] ELSE EmptyDict
               /\ Len(Requests(req.events)) = k
       /\ (\A i \in 1..req.retries : TransportFailure(i)) =>
               /\ req.ret = "Outcome"
               /\ req.out.status_code = 0
               /\ req.out.body = EmptyDict
               /\ "error" \in DOMAIN req.out
               /\ Len(Requests(req.events)) = req.retries

\* two transport failures, then a 200 response on the third and last attempt
C1_Witness ==
    /\ Returned
    /\ req.retries = 3
    /\ TransportFailure(1) /\ TransportFailure(2) /\ Responded(3, {200})
    /\ req.ret = "Outcome"
    /\ req.out.status_code = 200

\* C2 (as stated): every call of _safe_request with at least one attempt
\* ends by returning an Outcome mapping with status_code and body, whatever
\* the HTTP layer and the token provider do.
C2_NeverRaises ==
    (Returned /\ req.retries >= 1) =>
       /\ req.ret = "Outcome"
       /\ {"status_code", "body"} \subseteq DOMAIN req.out

\* C3: a non-2xx response on any attempt is terminal: the request that
\* received it is the last event of the call (no sleep, no further attempt),
\* and the Outcome carries the remote status, the remote body (the raw text
\* when it does not parse) and an error naming method, URL and status.
C3_NonSuccessResponseIsTerminal ==
    Returned =>
      \A i \in 1..req.retries :
        ( /\ \E j \in DOMAIN req.events :
                req.events[j].ev = "request" /\ req.events[j].attempt = i
          /\ req.att[i].http.kind = "resp"
          /\ req.att[i].http.status_code \notin 200..299 ) =>
            /\ req.ret = "Outcome"
            /\ req.events[Len(req.events)].ev = "request"
            /\ req.events[Len(req.events)].attempt = i
            /\ Len(Sleeps(req.events)) = i - 1
            /\ req.out.status_code = req.att[i].http.status_code
            /\ req.out.body = IF req.att[i].http.json # <<>>
                              THEN req.att[i].http.json[1]
                              ELSE [error |-> req.att[i].http.text]
            /\ "error" \in DOMAIN req.out
            /\ req.out.error.method = req.method
            /\ req.out.error.url = req.url
            /\ req.out.error.status_code = req.att[i].http.status_code

\* a 404 with an unparsable body on the second of three attempts
C3_Witness ==
    /\ Returned
    /\ req.retries = 3
    /\ TransportFailure(1)
    /\ Responded(2, {404}) /\ req.att[2].http.json = <<>>
    /\ req.ret = "Outcome"
    /\ req.out.status_code = 404

\* the status of the response the call ended with, if it ended with one
FinalStatus ==
    LET rs == Requests(req.events)
    IN  IF rs # <<>> /\ req.att[rs[Len(rs)].attempt].http.kind = "resp"
        THEN {req.att[rs[Len(rs)].attempt].http.status_code}
        ELSE {}

\* C4 (as stated): every Outcome has a body, and has an error entry iff the
\* final HTTP status is not a 2xx status or every attempt ended in a
\* transport failure; every 2xx response yields an Outcome without error.
C4_ErrorIffNotSuccess ==
    (Returned /\ req.ret = "Outcome") =>
       /\ "body" \in DOMAIN req.out
       /\ ("error" \in DOMAIN req.out) <=>
             \/ \E c \in FinalStatus : c \notin 200..299
             \/ FinalStatus = {}

(***************************************************************************)
(* Properties of the handlers                                              *)
(***************************************************************************)
Done == last # Idle

IsReq(e, method, coll) == e.method = method /\ e.url.coll = coll

Count(reqs, method, coll) == Len(SelectSeq(reqs, LAMBDA e : IsReq(e, method, coll)))

AllSucceeded(l) == \A i \in DOMAIN l.reqs : l.reqs[i].status \in {200, 201, 204}

EmailOf(row) == Lower(Strip(Field(row, "user_email")))

\* the directory us holds a user for email e
Holds(us, e) == \E u \in us : u.userName = e \/ e \in u.emails

\* C5: for a row with a non-empty user_email whose user does not exist, two
\* successive CREATE_USER calls whose remote calls all succeed return
\* "created" with the id the remote assigned, then "skipped" with the same
\* id; the second call sends no create request and the directory holds
\* exactly one user for the email.
C5_CreateUserTwice ==
    (Done /\ last.action = "CREATE_USER" /\ EmailOf(last.row) # <<>>) =>
       /\ (~Holds(last.users0, EmailOf(last.row)) /\ AllSucceeded(last)) =>
             /\ last.exc = ""
             /\ last.val.status = "created"
             /\ last.val.id = IdOf(last.next_id0)
             /\ \E u \in users \ last.users0 :
                    u.id = last.val.id /\ u.userName = EmailOf(last.row)
       /\ ( /\ last.prev # Idle
            /\ last.prev.row = last.row
            /\ ~Holds(last.prev.users0, EmailOf(last.row))
            /\ AllSucceeded(last.prev)
            /\ AllSucceeded(last) ) =>
             /\ last.prev.val.status = "created"
             /\ last.exc = ""
             /\ last.val.status = "skipped"
             /\ last.val.id = last.prev.val.id
             /\ Count(last.reqs, "POST", "Users") = 0
             /\ Cardinality({u \in users : Holds({u}, EmailOf(last.row))}) = 1

\* the second of two successful CREATE_USER calls on the row of a new user
C5_Witness ==
    /\ Done
    /\ last.action = "CREATE_USER"
    /\ last.prev # Idle
    /\ last.prev.row = last.row
    /\ ~Holds(last.prev.users0, EmailOf(last.row))
    /\ AllSucceeded(last.prev) /\ AllSucceeded(last)
    /\ last.prev.val.status = "created"
    /\ last.val.status = "skipped"

\* C6 (as stated): CREATE_USER sends no create request for an email for
\* which the directory already holds a user, whatever the outcome of each
\* lookup request.
C6_NoCreateForExistingUser ==
    (Done /\ last.action = "CREATE_USER" /\ Holds(last.users0, EmailOf(last.row))) =>
        Count(last.reqs, "POST", "Users") = 0

GroupNameOf(row) == construct_group_name(row).name

GroupExists(gs, row) ==
    /\ construct_group_name(row).exc = ""
    /\ \E g \in gs : g.displayName = GroupNameOf(row)

\* C7 (as stated): CREATE_GROUP on a row whose constructed name is the
\* display name of an existing group fails and sends no group create and no
\* group patch, for every outcome of the existence check.
C7_CreateExistingGroupFails ==
    (Done /\ last.action = "CREATE_GROUP" /\ GroupExists(last.groups0, last.row)) =>
        /\ last.exc # ""
        /\ Count(last.reqs, "POST", "Groups") = 0
        /\ Count(last.reqs, "PATCH", "Groups") = 0

MembersOf(row) == _split_members(Field(row, "group_members"))

\* request e is a user lookup for member m that returned a user
LookupHit(e, m) ==
    /\ IsReq(e, "GET", "Users")
    /\ e.arg.value = m
    /\ e.status = 200
    /\ Get(e.body, "Resources", <<>>) # <<>>

\* member m was resolved to a user id by one of the first n requests
Resolved(reqs, m, n) == \E i \in 1..n : i \in DOMAIN reqs /\ LookupHit(reqs[i], m)

\* the user ids the lookups of reqs returned for the members ms, in order
ResolvedObjs(reqs, ms) ==
    [i \in 1..Len(ms) |->
        [value |-> LET k == CHOOSE k \in DOMAIN reqs : LookupHit(reqs[k], ms[i])
                   IN  reqs[k].body.Resources[1].id]]

\* C8: CREATE_GROUP resolves every requested member to a user id before it
\* sends the group create request; when a member does not resolve, the
\* handler fails and sends no group create and no patch.
C8_MembersResolvedBeforeCreate ==
    (Done /\ last.action = "CREATE_GROUP") =>
       /\ \A j \in DOMAIN last.reqs :
             IsReq(last.reqs[j], "POST", "Groups") =>
                \A i \in DOMAIN MembersOf(last.row) :
                    Resolved(last.reqs, MembersOf(last.row)[i], j - 1)
       /\ (\E i \in DOMAIN MembersOf(last.row) :
              ~Resolved(last.reqs, MembersOf(last.row)[i], Len(last.reqs))) =>
             /\ last.exc # ""
             /\ Count(last.reqs, "POST", "Groups") = 0
             /\ Count(last.reqs, "PATCH", "Groups") = 0
             /\ groups = last.groups0

\* the group is new, one member exists and the other one does not
C8_Witness ==
    /\ Done
    /\ last.action = "CREATE_GROUP"
    /\ ~GroupExists(last.groups0, last.row)
    /\ Len(MembersOf(last.row)) = 2
    /\ Resolved(last.reqs, MembersOf(last.row)[1], Len(last.reqs))
    /\ ~Resolved(last.reqs, MembersOf(last.row)[2], Len(last.reqs))
    /\ Count(last.reqs, "GET", "Users") >= 3
    /\ last.exc = "ValueError"

\* C9: after a successful group creation with resolved members CREATE_GROUP
\* sends exactly one patch, adding all resolved members to the id the create
\* call returned; when the patch fails the handler raises and sends nothing
\* else, and the group stays in the directory without members.
C9_OnePatchNoRollback ==
    (Done /\ last.action = "CREATE_GROUP" /\ MembersOf(last.row) # <<>>) =>
       \A j \in DOMAIN last.reqs :
          (IsReq(last.reqs[j], "POST", "Groups") /\ last.reqs[j].status \in {200, 201}) =>
             /\ Count(last.reqs, "PATCH", "Groups") = 1
             /\ Len(last.reqs) = j + 1
             /\ IsReq(last.reqs[j + 1], "PATCH", "Groups")
             /\ last.reqs[j + 1].url.id = Get(last.reqs[j].body, "id", NoStr)
             /\ last.reqs[j + 1].arg.Operations =
                    <<[op |-> "add", path |-> "members",
                       value |-> ResolvedObjs(last.reqs, MembersOf(last.row))]>>
             /\ (last.reqs[j + 1].status \notin {200, 204}) =>
                    /\ last.exc # ""
                    /\ \A i \in DOMAIN last.reqs : last.reqs[i].method # "DELETE"
                    /\ \E g \in groups \ last.groups0 :
                          g.id = last.reqs[j].body.id /\ g.members = {}
             /\ (last.reqs[j + 1].status \in {200, 204}) =>
                    /\ last.exc = ""
                    /\ last.val.members_patched

\* a group created with two resolved members whose patch failed
C9_Witness ==
    /\ Done
    /\ last.action = "CREATE_GROUP"
    /\ Len(MembersOf(last.row)) = 2
    /\ Count(last.reqs, "POST", "Groups") = 1
    /\ Count(last.reqs, "PATCH", "Groups") = 1
    /\ last.reqs[Len(last.reqs)].status \in {0, 500}
    /\ last.exc = "RuntimeError"
    /\ \E g \in groups \ last.groups0 : g.members = {}

\* request e is the group lookup that found a group
GroupHit(e) ==
    IsReq(e, "GET", "Groups") /\ e.status = 200 /\ Get(e.body, "Resources", <<>>) # <<>>

\* C10: ADD_TO_GROUP with a non-empty member list fails with zero patches
\* when the named group does not exist, fails with zero patches when a member
\* does not resolve to a user id, and otherwise sends exactly one patch that
\* adds the ids of all listed members to the group.
C10_AddMembersAllOrNothing ==
    (Done /\ last.action = "ADD_TO_GROUP" /\ construct_group_name(last.row).exc = ""
          /\ MembersOf(last.row) # <<>>) =>
       LET found == \E i \in DOMAIN last.reqs : GroupHit(last.reqs[i])
           unresolved == \E i \in DOMAIN MembersOf(last.row) :
                            ~Resolved(last.reqs, MembersOf(last.row)[i], Len(last.reqs))
       IN  /\ (~GroupExists(last.groups0, last.row) \/ ~found \/ unresolved) =>
                 /\ last.exc # ""
                 /\ Count(last.reqs, "PATCH", "Groups") = 0
                 /\ groups = last.groups0
           /\ (found /\ ~unresolved) =>
                 /\ Count(last.reqs, "PATCH", "Groups") = 1
                 /\ IsReq(last.reqs[Len(last.reqs)], "PATCH", "Groups")
                 /\ last.reqs[Len(last.reqs)].url.id = last.reqs[1].body.Resources[1].id
                 /\ last.reqs[Len(last.reqs)].arg.Operations =
                        <<[op |-> "add", path |-> "members",
                           value |-> ResolvedObjs(last.reqs, MembersOf(last.row))]>>

\* two listed members, both resolved, added to the existing group by one patch
C10_Witness ==
    /\ Done
    /\ last.action = "ADD_TO_GROUP"
    /\ Len(MembersOf(last.row)) = 2
    /\ Count(last.reqs, "PATCH", "Groups") = 1
    /\ last.exc = ""
    /\ \E g \in groups : Cardinality(g.members) = 2

(***************************************************************************)
(* Properties of REMOVE_FROM_GROUP                                         *)
(***************************************************************************)
\* the results of a REMOVE_FROM_GROUP invocation that got past the group lookup
RemoveResults == IF "results" \in DOMAIN last.val THEN last.val.results ELSE <<>>

RemoveRan ==
    /\ Done
    /\ last.action = "REMOVE_FROM_GROUP"
    /\ last.exc = ""
    /\ "results" \in DOMAIN last.val

\* the positions of the listed members that no lookup resolved to a user id
UnresolvedMembers(l) ==
    {i \in DOMAIN MembersOf(l.row) : ~Resolved(l.reqs, MembersOf(l.row)[i], Len(l.reqs))}

NumWithStatus(results, st) == Cardinality({i \in DOMAIN results : results[i].status = st})

\* C11 (as stated): REMOVE_FROM_GROUP on an existing group whose requests all
\* succeed records every member that does not resolve to a user id as
\* "skipped" and sends no removal patch for it: with n members of which k
\* are unresolved there are n-k "removed" and k "skipped" entries, n-k
\* patches, and the status is "partial" when k > 0.
C11_UnresolvedMembersSkipped ==
    (RemoveRan /\ AllSucceeded(last)) =>
        /\ NumWithStatus(RemoveResults, "skipped") = Cardinality(UnresolvedMembers(last))
        /\ NumWithStatus(RemoveResults, "removed") =
               Len(MembersOf(last.row)) - Cardinality(UnresolvedMembers(last))
        /\ Count(last.reqs, "PATCH", "Groups") =
               Len(MembersOf(last.row)) - Cardinality(UnresolvedMembers(last))
        /\ (UnresolvedMembers(last) # {}) => last.val.status = "partial"

\* request e is a removal patch that did not succeed at the remote
FailedPatch(e) == IsReq(e, "PATCH", "Groups") /\ e.status \notin {200, 204}

\* C12 (as stated): REMOVE_FROM_GROUP returns one result entry per listed
\* member, in input order, and a member whose removal patch returns a
\* non-success Outcome is reported as failed and makes the aggregate status
\* "partial", so that "removed_all" means every removal succeeded.
C12_FailedRemovalIsPartial ==
    RemoveRan =>
        /\ Len(RemoveResults) = Len(MembersOf(last.row))
        /\ \A i \in DOMAIN RemoveResults : RemoveResults[i].member = MembersOf(last.row)[i]
        /\ (\E j \in DOMAIN last.reqs : FailedPatch(last.reqs[j])) =>
              /\ last.val.status = "partial"
              /\ NumWithStatus(RemoveResults, "failed") >= 1

(***************************************************************************)
(* Properties of the cluster and SQL warehouse operations                  *)
(***************************************************************************)
\* the clusters of workspace ws named for the application of call c
ClustersNamed(ws, c) == {x \in ws.clusters : x.cluster_name = c.application_name}

\* the warehouses of workspace ws named for the application of call c
WarehousesNamed(ws, c) ==
    {x \in ws.warehouses : x.name = WarehouseName(c.application_name)}

\* C13 (as stated): create_all_purpose_cluster and create_sql_warehouse are
\* idempotent by exact-name lookup: when a cluster (a warehouse) of the
\* target name exists, the call returns the existing id and sends no create
\* request, so the workspace still holds that one resource of the name.
C13_ComputeIdempotentByName ==
    /\ (Done /\ last.action = "create_all_purpose_cluster"
             /\ ClustersNamed(last.workspace0, last.row) # {}) =>
          /\ last.exc = ""
          /\ \E x \in ClustersNamed(last.workspace0, last.row) : last.val = x.cluster_id
          /\ \A i \in DOMAIN last.reqs : last.reqs[i].method # "POST"
          /\ ClustersNamed(workspace, last.row) = ClustersNamed(last.workspace0, last.row)
    /\ (Done /\ last.action = "create_sql_warehouse"
             /\ WarehousesNamed(last.workspace0, last.row) # {}
             /\ AllSucceeded(last)) =>
          /\ last.exc = ""
          /\ \E x \in WarehousesNamed(last.workspace0, last.row) : last.val = x.id
          /\ \A i \in DOMAIN last.reqs : last.reqs[i].method # "POST"
          /\ WarehousesNamed(workspace, last.row) = WarehousesNamed(last.workspace0, last.row)

(***************************************************************************)
(* Properties of construct_group_name                                      *)
(***************************************************************************)
\* The reference naming operator of the contract, over the trimmed fields
\* of a row.
RefField(row, key) == Strip(Field(row, key))

RefPrefix(row) ==
    IF Lower(RefField(row, "env")) \in {<<"p", "r", "o", "d">>, <<"p", "r", "o", "d", "u", "c", "t", "i", "o", "n">>, <<"p", "r", "d">>, <<"p">>}
    THEN <<"p", "r", "o", "d">> ELSE <<"n", "p", "r", "o", "d">>

RefOverridden(row) == RefField(row, "bu") = <<"O", "t", "h", "e", "r", "s">>

RefBusinessUnit(row) ==
    IF RefOverridden(row) THEN RefField(row, "other_type") ELSE RefField(row, "bu")

RefFails(row) == RefOverridden(row) /\ RefField(row, "other_type") = <<>>

\* prefix, "TM"+businessUnit, domain, appName, role; a blank business unit
\* gives an empty part
RefParts(row) ==
    <<RefPrefix(row),
      IF RefBusinessUnit(row) = <<>> THEN <<>> ELSE <<"T", "M">> \o RefBusinessUnit(row),
      RefField(row, "domain"), RefField(row, "appName"), RefField(row, "role")>>

\* the non-empty parts joined by "_", in order
RECURSIVE RefJoin(_)
RefJoin(parts) ==
    IF parts = <<>> THEN <<>>
    ELSE IF Head(parts) = <<>> THEN RefJoin(Tail(parts))
    ELSE IF RefJoin(Tail(parts)) = <<>> THEN Head(parts)
    ELSE Head(parts) \o <<"_">> \o RefJoin(Tail(parts))

RefGroupName(row) == RefJoin(RefParts(row))

NameDone == last.ret = "done" /\ last.action = "construct_group_name"

Onboarded == Done /\ last.action = "ONBOARD_PROJECT"

\* the cluster_type of the request as the handler reads it
ClusterTypeOf(row) == Lower(Strip(Field(row, "cluster_type")))

\* the audit records the last invocation appended
NewAudit == SubSeq(audit, last.audit0 + 1, Len(audit))

\* C15: ONBOARD_PROJECT with cluster_type "job" sends no cluster create
\* request and no policy list request; with a cluster_type other than
\* "all-purpose" and "job" it sends no create request at all, appends a
\* FAILED audit record and ends with an error result.
C15_OnboardBranches ==
    Onboarded =>
        /\ ClusterTypeOf(last.row) = Job =>
              \A i \in DOMAIN last.reqs :
                  last.reqs[i].url.coll \notin {"clusters/create", "policies/clusters/list"}
        /\ ClusterTypeOf(last.row) \notin {AllPurpose, Job} =>
              /\ \A i \in DOMAIN last.reqs : last.reqs[i].method # "POST"
              /\ workspace = last.workspace0
              /\ \E i \in DOMAIN NewAudit : NewAudit[i].status = "FAILED"
              /\ "error" \in DOMAIN last.val.result
              /\ last.val.status_code = 500

\* a "widget" request for a named application, and a "job" request that
\* created a warehouse
C15_Witness ==
    /\ Onboarded
    /\ \/ /\ ClusterTypeOf(last.row) = <<"w", "i", "d", "g", "e", "t">>
          /\ Field(last.row, "application_name") # <<>>
          /\ last.val.status_code = 500
          /\ last.reqs = <<>>
       \/ /\ ClusterTypeOf(last.row) = Job
          /\ last.val.status_code = 200
          /\ workspace.warehouses # last.workspace0.warehouses

\* C16 (as stated): every ONBOARD_PROJECT request appends exactly one audit
\* record, with status SUCCESS or FAILED, whatever its outcome.
C16_OneAuditRecordPerOnboard ==
    Onboarded =>
        /\ Len(NewAudit) = 1
        /\ \A i \in DOMAIN NewAudit : NewAudit[i].status \in {"SUCCESS", "FAILED"}

(***************************************************************************)
(* Properties of process_row and the /run route                            *)
(***************************************************************************)
Ran == Done /\ last.action \in {"RUN_FORM", "RUN_FILE"}

\* C17 (as stated): process_row never raises: every row of a request gets a
\* result mapping with the keys row, action, principal_type, identifier and
\* result, so a failing row does not abort the rows after it.
C17_ProcessRowNeverRaises ==
    Ran =>
        /\ last.exc = ""
        /\ Len(last.val.results) = Len(last.row.rows)
        /\ \A i \in DOMAIN last.val.results :
              DOMAIN last.val.results[i]
                  = {"row", "action", "principal_type", "identifier", "result"}

\* C18 (as stated): every dispatched row appends exactly one audit record,
\* and a row whose dispatch raised appends exactly one FAILED record.
C18_OneAuditRecordPerRow ==
    (Ran /\ last.exc = "") => Len(NewAudit) = Len(last.row.rows)

\* C19 (as stated): each of the seven actions is routed to its operation;
\* every other action sends no request, appends one FAILED audit record and
\* returns an error result.
C19_DispatchRoutesSevenActions ==
    (Ran /\ last.action = "RUN_FORM" /\ last.exc = "") =>
        IF Upper(Strip(last.row.rows[1].action))
               \in {CREATE_USER, DELETE_USER, UPDATE_USER, CREATE_GROUP, ADD_TO_GROUP,
                    REMOVE_FROM_GROUP, ONBOARD_PROJECT}
        THEN \A i \in DOMAIN NewAudit : NewAudit[i].principal_type # "unknown"
        ELSE /\ last.reqs = <<>>
             /\ Len(NewAudit) = 1
             /\ NewAudit[1].status = "FAILED"
             /\ "error" \in DOMAIN last.val.results[1].result

(***************************************************************************)
(* Properties of append_audit                                              *)
(***************************************************************************)
Appended == Done /\ last.action = "append_audit"

\* the value of a record field that is taken from the argument when it is
\* given and from the context otherwise; <<>> when neither is there
Merged(arg, c) == IF arg # <<>> THEN arg[1] ELSE IF c # <<>> THEN c[1] ELSE <<>>

IsGiven(arg, c) == arg # <<>> \/ c # <<>>

\* C20: the record append_audit appends takes request_payload, response_code
\* and response_body from the argument when it is given and from the context
\* otherwise, and run_id, admin, file_path and row_id from the context at the
\* time of the call, empty when unset.
C20_AuditMergesArgumentsAndContext ==
    Appended =>
        /\ audit[Len(audit)].request_payload
              = (IF IsGiven(last.row.request_payload, last.ctx0.request_payload)
                 THEN <<[json |-> Merged(last.row.request_payload,
                                         last.ctx0.request_payload)]>>
                 ELSE <<>>)
        /\ audit[Len(audit)].response_body
              = (IF IsGiven(last.row.response_body, last.ctx0.response_body)
                 THEN <<[json |-> Merged(last.row.response_body, last.ctx0.response_body)]>>
                 ELSE <<>>)
        /\ audit[Len(audit)].response_code
              = (IF IsGiven(last.row.response_code, last.ctx0.response_code)
                 THEN StrOfNat(Merged(last.row.response_code, last.ctx0.response_code))
                 ELSE <<>>)
        /\ audit[Len(audit)].run_id = Merged(<<>>, last.ctx0.run_id)
        /\ audit[Len(audit)].admin = Merged(<<>>, last.ctx0.admin)
        /\ audit[Len(audit)].file_path = Merged(<<>>, last.ctx0.file_path)
        /\ audit[Len(audit)].row_id
              = (IF last.ctx0.row_id # <<>> THEN StrOfNat(last.ctx0.row_id[1]) ELSE <<>>)
        /\ audit[Len(audit)].status = last.row.status
        /\ audit_context = last.ctx0

\* a call with a response code given while the context holds another one, and
\* without a request payload while the context holds one
C20_Witness ==
    /\ Appended
    /\ last.row.response_code = <<200>>
    /\ last.ctx0.response_code = <<500>>
    /\ last.row.request_payload = <<>>
    /\ last.ctx0.request_payload # <<>>
    /\ audit[Len(audit)].response_code = <<"2", "0", "0">>

(***************************************************************************)
(* Properties of the audit backends                                        *)
(***************************************************************************)
StoreWritten == Done /\ last.action = "append_audit" /\ "store0" \in DOMAIN last

\* the primary store is the one append_audit writes to
PrimaryConfigured(s) == s.mode = "delta" /\ s.env

\* the write to the primary store fails: the connection, the creation of the
\* table, the grant or the insert
PrimaryWriteFails(s) == ~s.connect \/ ~s.create \/ ~s.grant \/ ~s.insert

C22_RecordKeptWhileABackendIsWritable ==
    (StoreWritten
        /\ \/ last.store0.file_write
           \/ PrimaryConfigured(last.store0) /\ last.store0.connect /\ last.store0.insert) =>
        \/ audit = Append(last.audit0, last.row)
        \/ store.delta = Append(last.delta0, last.row)

StoreWasRead == Done /\ last.action = "read_audit"

\* the filters of the read as a mapping
FiltersOf(f) == IF f = <<>> THEN EmptyDict ELSE f[1]

\* the primary read fails: no connection, the SELECT is refused, or it names
\* a column the table does not have
PrimaryReadFails(s, f) ==
    \/ ~s.connect
    \/ ~s.select
    \/ \E k \in DOMAIN FiltersOf(f) : k \notin Range(EXPECTED_COLUMNS)

\* the records of the backend the read is served from
RecordsRead(s, file, f) ==
    IF PrimaryConfigured(s) /\ ~PrimaryReadFails(s, f) THEN s.delta
    ELSE IF s.file_read THEN file
    ELSE <<>>

Matching(rows, f) ==
    {i \in DOMAIN rows :
        \A k \in DOMAIN FiltersOf(f) : k \in DOMAIN rows[i] => rows[i][k] = FiltersOf(f)[k]}

Least(a, b) == IF a <= b THEN a ELSE b

\* C23: read_audit returns at most limit records, each equal to the filter
\* value on every filtered column, newest first, and they are the newest
\* matching records of the backend read: the primary store, or the flat
\* file when the primary read fails; with both unavailable the result is
\* empty with the 13 expected columns.
C23_ReadNewestMatching ==
    StoreWasRead =>
        /\ Len(last.val.rows) <= last.limit
        /\ \A i \in DOMAIN last.val.rows : i \in Matching(last.val.rows, last.filters)
        /\ \A i, j \in DOMAIN last.val.rows :
              i < j => last.val.rows[i].ts >= last.val.rows[j].ts
        /\ Len(last.val.rows)
              = Least(last.limit,
                      Cardinality(Matching(RecordsRead(store, audit, last.filters),
                                           last.filters)))
        /\ \A t \in 95..105 :
              Cardinality({i \in DOMAIN last.val.rows : last.val.rows[i].ts > t})
                  = Least(last.limit,
                          Cardinality({i \in Matching(RecordsRead(store, audit, last.filters),
                                                      last.filters) :
                                          RecordsRead(store, audit, last.filters)[i].ts > t}))
        /\ last.val.columns = EXPECTED_COLUMNS
        /\ Len(last.val.columns) = 13
        /\ (~store.file_read /\ (~PrimaryConfigured(store) \/ ~store.connect)) =>
              last.val.rows = <<>>

\* a read that fell back to the flat file, whose records are not in the order
\* of their timestamps, and cut the matching records to the limit
C23_Witness ==
    /\ StoreWasRead
    /\ PrimaryConfigured(store)
    /\ ~store.select
    /\ store.delta # <<>>
    /\ last.filters = <<[status |-> "SUCCESS"]>>
    /\ Len(last.val.rows) = 2
    /\ Len(audit) > 3
    /\ last.limit = 2
    /\ last.val.rows[1].ts > last.val.rows[2].ts

(***************************************************************************)
(* Properties of the audit context under concurrent requests               *)
(***************************************************************************)
\* the principal a row is about, as its audit records name it
PrincipalOf(row) ==
    IF Field(row, "user_email") # <<>> THEN Lower(Strip(Field(row, "user_email")))
    ELSE Strip(Field(row, "application_name"))

\* the audit records appended on behalf of row i (counted from 0) of the
\* request of thread t
RecordsOf(t, i) ==
    {k \in DOMAIN audit :
        audit[k].principal_identifier = PrincipalOf(threads[t].rows[i + 1])}

\* C24 (as stated): every audit record carries the run_id, the row_id and
\* the request_payload of the request and row on whose behalf it was
\* appended, never those of the other request, in every interleaving of two
\* requests.
C24_ContextScopedPerRequest ==
    \A t \in DOMAIN threads :
        \A i \in 0..(Len(threads[t].rows) - 1) :
            \A k \in RecordsOf(t, i) :
                /\ audit[k].run_id = threads[t].run_id
                /\ audit[k].row_id = StrOfNat(i)
                /\ \A u \in DOMAIN threads \ {t} :
                      \A j \in DOMAIN threads[u].rows :
                          audit[k].request_payload # <<Dumps(threads[u].rows[j])>>

(***************************************************************************)
(* Properties of the order of rows, requests and audit records in a batch  *)
(***************************************************************************)
\* the row an audit record names, counted from 0
RowOf(record) == NatOf(record.row_id)

\* the rows of the uploaded file of the last request
Batch == last.row.rows

\* the action a handler writes into its audit records
ActionName(action) ==
    IF action = CREATE_USER THEN "CREATE_USER"
    ELSE IF action = DELETE_USER THEN "DELETE_USER"
    ELSE IF action = UPDATE_USER THEN "UPDATE_USER"
    ELSE IF action = CREATE_GROUP THEN "CREATE_GROUP"
    ELSE IF action = ADD_TO_GROUP THEN "ADD_TO_GROUP"
    ELSE IF action = REMOVE_FROM_GROUP THEN "REMOVE_FROM_GROUP"
    ELSE ""

\* the record is one a dispatch of the row appends: process_row writes the
\* action it read, a handler its own name
IsOfRow(record, row) ==
    IF record.principal_type \in {"unknown", "error"}
    THEN record.action = Upper(Strip(Field(row, "action")))
    ELSE record.action = ActionName(Upper(Strip(Field(row, "action"))))

\* the requests that change the remote
Mutating(q) == q.method # "GET"

\* C25: in a batch the rows are processed in input order: the row_id of the
\* audit records and the row of the requests never decrease, every request
\* and record of row i precedes every request and record of a later row, a
\* record carries the row_id and the action of its row and the run_id of the
\* batch, and a SUCCESS record of a mutating action comes after a mutating
\* request of its row has returned.
C25_RowsInOrder ==
    (Ran /\ last.action = "RUN_FILE") =>
        /\ \A k \in DOMAIN NewAudit :
              /\ NewAudit[k].row_id # NoStr
              /\ RowOf(NewAudit[k]) < Len(Batch)
              /\ IsOfRow(NewAudit[k], Batch[RowOf(NewAudit[k]) + 1])
              /\ <<NewAudit[k].run_id>> = audit_context.run_id
              /\ \A l \in DOMAIN NewAudit :
                    k < l => RowOf(NewAudit[k]) <= RowOf(NewAudit[l])
              /\ \A i \in DOMAIN last.reqs :
                    /\ last.reqs[i].ctx_row[1] < RowOf(NewAudit[k])
                          => last.reqs[i].audits < last.audit0 + k
                    /\ RowOf(NewAudit[k]) < last.reqs[i].ctx_row[1]
                          => last.audit0 + k <= last.reqs[i].audits
              /\ (NewAudit[k].status = "SUCCESS"
                    /\ NewAudit[k].principal_type \notin {"unknown", "error"}) =>
                    \E i \in DOMAIN last.reqs :
                        /\ Mutating(last.reqs[i])
                        /\ last.reqs[i].ctx_row = <<RowOf(NewAudit[k])>>
                        /\ last.reqs[i].audits < last.audit0 + k
        /\ \A i, j \in DOMAIN last.reqs :
              i < j => /\ last.reqs[i].ctx_row[1] <= last.reqs[j].ctx_row[1]
                       /\ last.reqs[i].audits <= last.reqs[j].audits

\* C25 witness: a batch of two rows, each of which sent a request and
\* appended a record, the second one a SUCCESS record after its request
C25_Witness ==
    /\ Ran /\ last.action = "RUN_FILE" /\ last.exc = ""
    /\ \E i, j \in DOMAIN last.reqs :
          last.reqs[i].ctx_row = <<0>> /\ last.reqs[j].ctx_row = <<1>>
    /\ \E k, l \in DOMAIN NewAudit :
          /\ NewAudit[k].row_id = <<"0">>
          /\ NewAudit[l].row_id = <<"1">>
          /\ NewAudit[l].status = "SUCCESS"
          /\ NewAudit[l].action = "CREATE_USER"

(***************************************************************************)
(* Properties of the audit records of DELETE_USER and UPDATE_USER          *)
(***************************************************************************)
\* a status the remote returns for a request it carried out
IsSuccessStatus(code) == code \in 200..299

\* C26 (as stated): a SUCCESS record of DELETE_USER or UPDATE_USER is
\* appended only when the remote delete or patch request returned a success
\* status, and its response_code is the status the remote returned.
C26_SuccessOnlyAfterRemoteSuccess ==
    (Ran /\ last.action = "RUN_FORM") =>
        \A k \in DOMAIN NewAudit :
            (/\ NewAudit[k].principal_type = "user"
             /\ NewAudit[k].status = "SUCCESS"
             /\ NewAudit[k].action \in {"DELETE_USER", "UPDATE_USER"}) =>
                \E i \in DOMAIN last.reqs :
                    /\ last.reqs[i].method \in {"DELETE", "PATCH"}
                    /\ IsSuccessStatus(last.reqs[i].status)
                    /\ NewAudit[k].response_code = StrOfNat(last.reqs[i].status)

(***************************************************************************)
(* Properties of the autoscale bounds of the cluster create payload        *)
(***************************************************************************)
\* the worker count a call asks for; a missing count is 1
Requested(base_workers) ==
    CASE base_workers = <<>> -> 1
      [] base_workers = <<"3">> -> 3
      [] base_workers = <<"0">> -> 0
      [] base_workers = <<"-", "3">> -> 0 - 3

\* the create requests of the last call
ClusterCreates == {i \in DOMAIN last.reqs : last.reqs[i].url.coll = "clusters/create"}

\* C27: the cluster create payload has min_workers = max(1, w) and
\* max_workers = max(2, 2 * w) for the requested count w, so
\* 1 <= min_workers <= max_workers and max_workers >= 2, also for a count
\* that is zero or negative.
C27_AutoscaleBounds ==
    (Done /\ last.action = "create_all_purpose_cluster") =>
        \A i \in ClusterCreates :
            /\ last.reqs[i].arg.autoscale.min_workers
                  = Max(1, Requested(last.row.base_workers))
            /\ last.reqs[i].arg.autoscale.max_workers
                  = Max(2, 2 * Requested(last.row.base_workers))
            /\ 1 <= last.reqs[i].arg.autoscale.min_workers
            /\ last.reqs[i].arg.autoscale.min_workers
                  <= last.reqs[i].arg.autoscale.max_workers
            /\ last.reqs[i].arg.autoscale.max_workers >= 2

\* C27 witness: a create request was sent for a negative requested count
C27_Witness ==
    /\ Done /\ last.action = "create_all_purpose_cluster"
    /\ Requested(last.row.base_workers) < 0
    /\ ClusterCreates # {}

(***************************************************************************)
(* Properties of the sleeps of _safe_request                               *)
(***************************************************************************)
\* the seconds slept in the sleeps of the trace
RECURSIVE Slept(_)
Slept(evs) ==
    IF evs = <<>> THEN 0
    ELSE (IF Head(evs).ev = "sleep" THEN Head(evs).secs ELSE 0) + Slept(Tail(evs))

\* C28: _safe_request sleeps only between attempts: the i-th sleep lasts
\* 2 * 2^(i-1) seconds, a call that made n >= 1 attempts slept n - 1 times
\* (so not after its final attempt), the clock advanced by the seconds
\* slept, the request of attempt i comes after i - 1 sleeps, and a request
\* that received an HTTP response is followed by no sleep.
C28_BackoffBetweenAttempts ==
    (Returned /\ req.retries >= 1) =>
        /\ \A j \in DOMAIN Sleeps(req.events) :
              Sleeps(req.events)[j].secs = 2 * 2^(j - 1)
        /\ req.iterations \in 1..req.retries
        /\ Len(Sleeps(req.events)) = req.iterations - 1
        /\ now = req.clock0 + Slept(req.events)
        /\ Len(Sleeps(req.events)) < req.retries
        /\ \A j \in DOMAIN req.events :
              (/\ req.events[j].ev = "request"
               /\ req.att[req.events[j].attempt].http.kind = "resp") =>
                    j = Len(req.events)
        /\ \A j \in DOMAIN req.events :
              req.events[j].ev = "request" =>
                  Len(Sleeps(SubSeq(req.events, 1, j))) = req.events[j].attempt - 1

\* C28 witness: two transport failures and sleeps of 2 and 4 seconds, then a
\* response on the third attempt
C28_Witness ==
    /\ Returned
    /\ req.retries = 3
    /\ TransportFailure(1) /\ TransportFailure(2) /\ Responded(3, {200})
    /\ Len(Sleeps(req.events)) = 2
    /\ Sleeps(req.events)[2].secs = 4
    /\ now = req.clock0 + 6

(***************************************************************************)
(* Properties of set_audit_context and clear_audit_context                 *)
(***************************************************************************)
ContextWasSet == Done /\ last.action = "set_audit_context"
ContextWasCleared == Done /\ last.action = "clear_audit_context"

\* C29: the context always has exactly its seven fields; set_audit_context
\* changes the named fields among the seven, leaves the others as they were
\* and adds no field; clear_audit_context resets every field to None.
C29_ContextKeepsItsSevenFields ==
    /\ DOMAIN audit_context
          = {"run_id", "admin", "file_path", "row_id", "request_payload", "response_code",
             "response_body"}
    /\ ContextWasSet =>
          \A k \in DOMAIN audit_context :
              audit_context[k] = IF k \in DOMAIN last.row THEN last.row[k] ELSE last.ctx0[k]
    /\ ContextWasCleared => \A k \in DOMAIN audit_context : audit_context[k] = <<>>

\* C29 witness: a call naming run_id and the unknown name run_by changed
\* run_id and kept a row_id set before
C29_Witness ==
    /\ ContextWasSet
    /\ "run_by" \in DOMAIN last.row
    /\ last.ctx0.row_id # <<>>
    /\ audit_context.row_id = last.ctx0.row_id
    /\ audit_context.run_id # last.ctx0.run_id

(***************************************************************************)
(* Properties of the token cache under concurrent callers                  *)
(***************************************************************************)
\* the expiry minus 60 s of a token: the value its fetcher computed at
\* line 44, and for the token cached at the start the expiry cached with it
Fetches(tk) ==
    {f \in UNION {Range(threads[t].fetched) : t \in DOMAIN threads} : f.token = tk}

\* C30 (as stated): under any interleaving of concurrent callers the cache
\* holds a token together with the expiry of that same token, and a
\* returned token was not past its own expiry minus 60 s when the caller
\* read the clock.
C30_CacheConsistentUnderConcurrency ==
    /\ \A f \in Fetches(token_cache.token) : token_cache.expires_at = f.expires_at
    /\ \A t \in DOMAIN threads :
          threads[t].pc = "returned" =>
              \A f \in Fetches(threads[t].ret) : threads[t].read_at < f.expires_at

====
